---- MODULE Spec2Model ----
(***************************************************************************)
(* A model of the scanner in src/main.py: the D1 order-block detector, the *)
(* H1 touch / structure / retest detectors, the persisted state file with  *)
(* its session ids and sent ledger, and main_loop with its round-robin     *)
(* batch.                                                                  *)
(*                                                                         *)
(* Conventions.  Python lists are 0-based, the sequences here are 1-based: *)
(* index i of the source is index i+1 here.  Optional values are <<>>      *)
(* (None) or <<x>>.  Prices are integers; a percentage is kept in units of *)
(* 1/10000, and a comparison that involves a tolerance is made on both     *)
(* sides multiplied by the unit, so that it is exact.  The direction       *)
(* strings of the source are written "SHORT" and "LONG", its block types   *)
(* "MOVEMENT" and "MITIGATION".                                            *)
(***************************************************************************)
EXTENDS Integers, Sequences, FiniteSets, TLC

(***************************************************************************)
(* CONFIG (src/main.py:19-63).  Percentages in units of 1/10000.           *)
(***************************************************************************)
SYMBOLS_PER_TICK == 12
D1_LOOKBACK_DAYS == 90
D1_PIVOT_LEFT == 2
D1_PIVOT_RIGHT == 2
H1_LOOKBACK_BARS == 260
H1_PIVOT_LEFT == 3
H1_PIVOT_RIGHT == 3
D1_BLOCK_TOL_PCT == 25
BOS_MIN_PCT == 0
RETEST_TOL_PCT == 20
HEARTBEAT_START_HOUR_MSK == 10
HEARTBEAT_END_HOUR_MSK == 22

\* hard-coded minimum lengths of the fetched windows
MinD1Bars == 20
MinTouchBars == 10
MinRetestBars == 10
MinStructBars == 30
MinSeqBars == 20
EngulfBars == 5
D1ScanStart == 5
\* the sent ledger's cap and what is kept when it is exceeded
SentCap == 6000
SentKeep == 4500

(***************************************************************************)
(* Bounds of the model.                                                    *)
(***************************************************************************)
\* hours that pass (one new H1 candle per symbol and hour)
MaxHours == 3
\* scheduler ticks of main_loop
MaxTicks == 2
\* faults (failed fetch, read, write, delivery) within one step
MaxFaults == 1
\* the ledger specification: records at the start, and mark_sent calls
LedgerStart == 5999
MaxCalls == 3
\* the pivot helpers on their own: candles of a sequence, price levels, and
\* the widest window on either side
MaxLen == 5
MaxPrice == 3
MaxWin == 2
\* the structure and retest detectors on their own: the price levels a swing
\* can end at (0..MaxLevel), the swings of the recorded stretch, the candles
\* of a swing, and the hours that pass after it
MaxLevel == 3
NumLegs == 5
LegLen == 4
MaxAppend == 3

(***************************************************************************)
(* Utilities (src/main.py:92-117)                                          *)
(***************************************************************************)
None == <<>>

Some(x) == <<x>>

Abs(x) == IF x < 0 THEN -x ELSE x

Min2(a, b) == IF a <= b THEN a ELSE b

Max2(a, b) == IF a >= b THEN a ELSE b

\* a price in units of 1/10000
U(x) == x * 10000

\* abs(price) * pct, in units of 1/10000
pct_tol(price, pct) == Abs(price) * pct

\* in_range(x, lo, hi, tol), tol in units of 1/10000
in_range(x, lo, hi, tol) ==
    /\ U(Min2(lo, hi)) - tol <= U(x)
    /\ U(x) <= U(Max2(lo, hi)) + tol

ranges_intersect(a_lo, a_hi, b_lo, b_hi) ==
    LET a1 == Min2(a_lo, a_hi)
        a2 == Max2(a_lo, a_hi)
        b1 == Min2(b_lo, b_hi)
        b2 == Max2(b_lo, b_hi)
    IN  ~(a2 < b1 \/ b2 < a1)

range_intersection(a_lo, a_hi, b_lo, b_hi) ==
    IF ~ranges_intersect(a_lo, a_hi, b_lo, b_hi)
    THEN None
    ELSE Some(<<Max2(Min2(a_lo, a_hi), Min2(b_lo, b_hi)),
                Min2(Max2(a_lo, a_hi), Max2(b_lo, b_hi))>>)

clamp(a, lo, hi) == Max2(lo, Min2(hi, a))

is_bull(o, c) == c > o

is_bear(o, c) == c < o

(***************************************************************************)
(* Pivot helpers (src/main.py:296-334).  The loops are followed as they    *)
(* are written: the left window is scanned first and stops at the first    *)
(* candle that is not strictly lower, then the right window.               *)
(***************************************************************************)
\* HighLeftOk, were an equal high on the left allowed
RECURSIVE HighLeftOkLoose(_, _, _, _)
HighLeftOkLoose(candles, j, i, h) ==
    IF j >= i THEN TRUE
    ELSE IF candles[j].high > h THEN FALSE
    ELSE HighLeftOkLoose(candles, j + 1, i, h)

RECURSIVE HighLeftOk(_, _, _, _)
HighLeftOk(candles, j, i, h) ==
    IF j >= i THEN TRUE
    ELSE IF candles[j].high >= h THEN FALSE
    ELSE HighLeftOk(candles, j + 1, i, h)

\* HighRightOk, were an equal high on the right refused
RECURSIVE HighRightOkStrict(_, _, _, _)
HighRightOkStrict(candles, j, last, h) ==
    IF j > last THEN TRUE
    ELSE IF candles[j].high >= h THEN FALSE
    ELSE HighRightOkStrict(candles, j + 1, last, h)

RECURSIVE HighRightOk(_, _, _, _)
HighRightOk(candles, j, last, h) ==
    IF j > last THEN TRUE
    ELSE IF candles[j].high > h THEN FALSE
    ELSE HighRightOk(candles, j + 1, last, h)

pivots_high(candles, left, right) ==
    LET n == Len(candles)
    IN  [i \in 1..n |->
            IF i < left + 1 \/ i > n - right THEN None
            ELSE LET h == candles[i].high
                 IN  IF ~HighLeftOk(candles, i - left, i, h) THEN None
                     ELSE IF HighRightOk(candles, i + 1, i + right, h)
                          THEN Some(h) ELSE None]

RECURSIVE LowLeftOk(_, _, _, _)
LowLeftOk(candles, j, i, l) ==
    IF j >= i THEN TRUE
    ELSE IF candles[j].low <= l THEN FALSE
    ELSE LowLeftOk(candles, j + 1, i, l)

RECURSIVE LowRightOk(_, _, _, _)
LowRightOk(candles, j, last, l) ==
    IF j > last THEN TRUE
    ELSE IF candles[j].low < l THEN FALSE
    ELSE LowRightOk(candles, j + 1, last, l)

pivots_low(candles, left, right) ==
    LET n == Len(candles)
    IN  [i \in 1..n |->
            IF i < left + 1 \/ i > n - right THEN None
            ELSE LET l == candles[i].low
                 IN  IF ~LowLeftOk(candles, i - left, i, l) THEN None
                     ELSE IF LowRightOk(candles, i + 1, i + right, l)
                          THEN Some(l) ELSE None]

(***************************************************************************)
(* The exchange's answer to get_klines (src/main.py:263-289): the last     *)
(* `limit` candles of the series, oldest first.                            *)
(***************************************************************************)
get_klines(series, limit) ==
    IF Len(series) <= limit THEN series
    ELSE SubSeq(series, Len(series) - limit + 1, Len(series))

\* the limit find_d1_blocks asks for: min(1000, max(60, D1_LOOKBACK_DAYS + 20))
D1Limit == Min2(1000, Max2(60, D1_LOOKBACK_DAYS + 20))

(***************************************************************************)
(* D1 blocks (src/main.py:341-475)                                         *)
(***************************************************************************)
candle_body_range(c) == <<Min2(c.open, c.close), Max2(c.open, c.close)>>

candle_wick_range(c) == <<c.low, c.high>>

is_engulfing(prev, curr) ==
    LET p == candle_body_range(prev)
        c == candle_body_range(curr)
    IN  c[1] <= p[1] /\ c[2] >= p[2] /\ (c[2] - c[1]) > 0

\* [(i, pv[i]) for i in range(len(d1)) if pv[i] is not None]
RECURSIVE Swings(_, _)
Swings(pv, i) ==
    IF i > Len(pv) THEN <<>>
    ELSE IF pv[i] # None THEN <<(<<i, pv[i][1]>>)>> \o Swings(pv, i + 1)
    ELSE Swings(pv, i + 1)

\* the last swing whose index is below idx, searched from the end
RECURSIVE last_swing_from(_, _, _)
last_swing_from(swings, i, idx) ==
    IF i < 1 THEN None
    ELSE IF swings[i][1] < idx THEN Some(swings[i])
    ELSE last_swing_from(swings, i - 1, idx)

last_swing_before(swings, idx) == last_swing_from(swings, Len(swings), idx)

\* PrevBear, were a candle that closes where it opened to count as bearish
RECURSIVE PrevBearOrFlat(_, _)
PrevBearOrFlat(d1, j) ==
    IF j < 1 THEN 0
    ELSE IF ~is_bull(d1[j].open, d1[j].close) THEN j
    ELSE PrevBearOrFlat(d1, j - 1)

\* j = i - 1; while j >= 0 and not is_bear(...): j -= 1   (0 when none)
RECURSIVE PrevBear(_, _)
PrevBear(d1, j) ==
    IF j < 1 THEN 0
    ELSE IF is_bear(d1[j].open, d1[j].close) THEN j
    ELSE PrevBear(d1, j - 1)

RECURSIVE PrevBull(_, _)
PrevBull(d1, j) ==
    IF j < 1 THEN 0
    ELSE IF is_bull(d1[j].open, d1[j].close) THEN j
    ELSE PrevBull(d1, j - 1)

\* k = i; while k < len(d1): first candle whose wick holds lvl   (0 when none)
RECURSIVE FirstOverlap(_, _, _)
FirstOverlap(d1, k, lvl) ==
    IF k > Len(d1) THEN 0
    ELSE IF d1[k].low <= lvl /\ lvl <= d1[k].high THEN k
    ELSE FirstOverlap(d1, k + 1, lvl)

Block(type, dir, b, level, break_ts) ==
    [type |-> type, dir |-> dir, ts |-> b.ts,
     body |-> candle_body_range(b), wick |-> candle_wick_range(b),
     level |-> level, break_ts |-> break_ts]

\* the blocks one breakout direction adds at candle i: the moving block when
\* an opposite candle precedes i, then the mitigating block searched from i on
BreakoutBlocks(d1, i, dir, lvl, j) ==
    LET k == FirstOverlap(d1, i, lvl)
    IN  (IF j >= 1 THEN <<Block("MOVEMENT", dir, d1[j], lvl, d1[i].ts)>> ELSE <<>>)
        \o
        (IF k >= 1 THEN <<Block("MITIGATION", dir, d1[k], lvl, d1[i].ts)>> ELSE <<>>)

\* the body of the breakout scan at candle i (src/main.py:389-460)
BlocksAt(d1, i, swing_highs, swing_lows) ==
    LET c == d1[i]
        last_hi == last_swing_before(swing_highs, i)
        last_lo == last_swing_before(swing_lows, i)
    IN  (IF last_hi # None /\ c.high > last_hi[1][2]
         THEN BreakoutBlocks(d1, i, "LONG", last_hi[1][2], PrevBear(d1, i - 1))
         ELSE <<>>)
        \o
        (IF last_lo # None /\ c.low < last_lo[1][2]
         THEN BreakoutBlocks(d1, i, "SHORT", last_lo[1][2], PrevBull(d1, i - 1))
         ELSE <<>>)

RECURSIVE ScanBlocks(_, _, _, _)
ScanBlocks(d1, i, swing_highs, swing_lows) ==
    IF i > Len(d1) THEN <<>>
    ELSE BlocksAt(d1, i, swing_highs, swing_lows)
         \o ScanBlocks(d1, i + 1, swing_highs, swing_lows)

\* blocks.sort(key=ts, reverse=True): stable, equal ts keep their order
RECURSIVE InsertDesc(_, _, _)
InsertDesc(sorted, b, p) ==
    IF p > Len(sorted) THEN Append(sorted, b)
    ELSE IF sorted[p].ts < b.ts
         THEN SubSeq(sorted, 1, p - 1) \o <<b>> \o SubSeq(sorted, p, Len(sorted))
         ELSE InsertDesc(sorted, b, p + 1)

RECURSIVE SortDesc(_, _, _)
SortDesc(blocks, i, acc) ==
    IF i > Len(blocks) THEN acc
    ELSE SortDesc(blocks, i + 1, InsertDesc(acc, blocks[i], 1))

\* keep the first block of every (type, dir)
RECURSIVE FilterFirst(_, _, _, _)
FilterFirst(blocks, i, seen, acc) ==
    IF i > Len(blocks) THEN acc
    ELSE LET key == <<blocks[i].type, blocks[i].dir>>
         IN  IF key \in seen THEN FilterFirst(blocks, i + 1, seen, acc)
             ELSE FilterFirst(blocks, i + 1, seen \cup {key}, Append(acc, blocks[i]))

\* d1: the candles get_klines(symbol, "1d", D1Limit) returned
find_d1_blocks(d1) ==
    IF Len(d1) < MinD1Bars THEN <<>>
    ELSE LET ph == pivots_high(d1, D1_PIVOT_LEFT, D1_PIVOT_RIGHT)
             pl == pivots_low(d1, D1_PIVOT_LEFT, D1_PIVOT_RIGHT)
             swing_highs == Swings(ph, 1)
             swing_lows == Swings(pl, 1)
             blocks == ScanBlocks(d1, D1ScanStart + 1, swing_highs, swing_lows)
         IN  FilterFirst(SortDesc(blocks, 1, <<>>), 1, {}, <<>>)

(***************************************************************************)
(* Touch logic (src/main.py:482-529).  The tolerance is abs(mid) * tol     *)
(* with mid = (wick_lo + wick_hi) / 2: in units of 1/20000 it is           *)
(* abs(wick_lo + wick_hi) * tol, and prices are 20000 * price.             *)
(***************************************************************************)
U2(x) == x * 20000

\* reversed(h1[:-1]): the most recent closed candle that touches, from index i down
RECURSIVE TouchFrom(_, _, _, _)
TouchFrom(h1, i, body2, wick2) ==
    IF i < 1 THEN None
    ELSE LET lo == U2(h1[i].low)
             hi == U2(h1[i].high)
         IN  IF ranges_intersect(lo, hi, wick2[1], wick2[2])
             THEN LET inBody == ranges_intersect(lo, hi, body2[1], body2[2])
                      inter == IF inBody
                               THEN range_intersection(lo, hi, body2[1], body2[2])
                               ELSE range_intersection(lo, hi, wick2[1], wick2[2])
                  IN  Some([ts |-> h1[i].ts,
                            h1_low |-> h1[i].low,
                            h1_high |-> h1[i].high,
                            \* in units of 1/20000
                            touch_price |-> IF inter # None THEN inter[1][1]
                                            ELSE clamp((lo + hi) \div 2, wick2[1], wick2[2]),
                            touch_part |-> IF inBody THEN "BODY" ELSE "WICK"])
             ELSE TouchFrom(h1, i - 1, body2, wick2)

\* find_touch, were the tolerance to widen the wick range only
find_touchTightBody(h1, d1_block) ==
    IF Len(h1) < MinTouchBars THEN None
    ELSE LET t == Abs(d1_block.wick[1] + d1_block.wick[2]) * D1_BLOCK_TOL_PCT
             body2 == <<U2(d1_block.body[1]), U2(d1_block.body[2])>>
             wick2 == <<U2(d1_block.wick[1]) - t, U2(d1_block.wick[2]) + t>>
         IN  TouchFrom(h1, Len(h1) - 1, body2, wick2)

\* h1: the candles get_klines(symbol, "1h", H1_LOOKBACK_BARS) returned
find_touch(h1, d1_block) ==
    IF Len(h1) < MinTouchBars THEN None
    ELSE LET t == Abs(d1_block.wick[1] + d1_block.wick[2]) * D1_BLOCK_TOL_PCT
             body2 == <<U2(d1_block.body[1]) - t, U2(d1_block.body[2]) + t>>
             wick2 == <<U2(d1_block.wick[1]) - t, U2(d1_block.wick[2]) + t>>
         IN  TouchFrom(h1, Len(h1) - 1, body2, wick2)

(***************************************************************************)
(* H1 structure (src/main.py:536-662).  The scan keeps p1, p2, p3 as       *)
(* index and value, each None until set.                                   *)
(***************************************************************************)
ScanInit == [p1_i |-> None, p1_val |-> None,
             p2_i |-> None, p2_val |-> None,
             p3_i |-> None, p3_val |-> None]

\* ShortStep, were point 1 moved by every pivot high of another price
ShortStepAnyPivot(ph, pl, i, s) ==
    LET s1 == IF ph[i] # None /\ (s.p1_val = None \/ ph[i][1] # s.p1_val[1])
              THEN [p1_i |-> Some(i), p1_val |-> ph[i],
                    p2_i |-> None, p2_val |-> None,
                    p3_i |-> None, p3_val |-> None]
              ELSE s
        s2 == IF /\ s1.p1_i # None
                 /\ i > s1.p1_i[1]
                 /\ pl[i] # None
                 /\ s1.p2_val = None
              THEN [s1 EXCEPT !.p2_val = pl[i], !.p2_i = Some(i)]
              ELSE s1
        s3 == IF /\ s2.p2_i # None
                 /\ i > s2.p2_i[1]
                 /\ ph[i] # None
                 /\ (s2.p1_val = None \/ ph[i][1] < s2.p1_val[1])
                 /\ s2.p3_val = None
              THEN [s2 EXCEPT !.p3_val = ph[i], !.p3_i = Some(i)]
              ELSE s2
    IN  s3

\* ShortStep, were point 2 kept when point 1 moves
ShortStepKeepP2(ph, pl, i, s) ==
    LET s1 == IF ph[i] # None /\ (s.p1_val = None \/ ph[i][1] > s.p1_val[1])
              THEN [p1_i |-> Some(i), p1_val |-> ph[i],
                    p2_i |-> s.p2_i, p2_val |-> s.p2_val,
                    p3_i |-> None, p3_val |-> None]
              ELSE s
        s2 == IF /\ s1.p1_i # None
                 /\ i > s1.p1_i[1]
                 /\ pl[i] # None
                 /\ s1.p2_val = None
              THEN [s1 EXCEPT !.p2_val = pl[i], !.p2_i = Some(i)]
              ELSE s1
        s3 == IF /\ s2.p2_i # None
                 /\ i > s2.p2_i[1]
                 /\ ph[i] # None
                 /\ (s2.p1_val = None \/ ph[i][1] < s2.p1_val[1])
                 /\ s2.p3_val = None
              THEN [s2 EXCEPT !.p3_val = ph[i], !.p3_i = Some(i)]
              ELSE s2
    IN  s3

\* ShortStep, were a pivot high at the price of point 1 taken as point 3
ShortStepEqualP3(ph, pl, i, s) ==
    LET s1 == IF ph[i] # None /\ (s.p1_val = None \/ ph[i][1] > s.p1_val[1])
              THEN [p1_i |-> Some(i), p1_val |-> ph[i],
                    p2_i |-> None, p2_val |-> None,
                    p3_i |-> None, p3_val |-> None]
              ELSE s
        s2 == IF /\ s1.p1_i # None
                 /\ i > s1.p1_i[1]
                 /\ pl[i] # None
                 /\ s1.p2_val = None
              THEN [s1 EXCEPT !.p2_val = pl[i], !.p2_i = Some(i)]
              ELSE s1
        s3 == IF /\ s2.p2_i # None
                 /\ i > s2.p2_i[1]
                 /\ ph[i] # None
                 /\ (s2.p1_val = None \/ ph[i][1] <= s2.p1_val[1])
                 /\ s2.p3_val = None
              THEN [s2 EXCEPT !.p3_val = ph[i], !.p3_i = Some(i)]
              ELSE s2
    IN  s3

\* SHORT, candle i: the updates of point 1, point 2, point 3, in this order
ShortStep(ph, pl, i, s) ==
    LET s1 == IF ph[i] # None /\ (s.p1_val = None \/ ph[i][1] > s.p1_val[1])
              THEN [p1_i |-> Some(i), p1_val |-> ph[i],
                    p2_i |-> None, p2_val |-> None,
                    p3_i |-> None, p3_val |-> None]
              ELSE s
        s2 == IF /\ s1.p1_i # None
                 /\ i > s1.p1_i[1]
                 /\ pl[i] # None
                 /\ s1.p2_val = None
              THEN [s1 EXCEPT !.p2_val = pl[i], !.p2_i = Some(i)]
              ELSE s1
        s3 == IF /\ s2.p2_i # None
                 /\ i > s2.p2_i[1]
                 /\ ph[i] # None
                 /\ (s2.p1_val = None \/ ph[i][1] < s2.p1_val[1])
                 /\ s2.p3_val = None
              THEN [s2 EXCEPT !.p3_val = ph[i], !.p3_i = Some(i)]
              ELSE s2
    IN  s3

\* LongStep, were point 1 moved by a pivot low at its own price
LongStepTies(ph, pl, i, s) ==
    LET s1 == IF pl[i] # None /\ (s.p1_val = None \/ pl[i][1] <= s.p1_val[1])
              THEN [p1_i |-> Some(i), p1_val |-> pl[i],
                    p2_i |-> None, p2_val |-> None,
                    p3_i |-> None, p3_val |-> None]
              ELSE s
        s2 == IF /\ s1.p1_i # None
                 /\ i > s1.p1_i[1]
                 /\ ph[i] # None
                 /\ s1.p2_val = None
              THEN [s1 EXCEPT !.p2_val = ph[i], !.p2_i = Some(i)]
              ELSE s1
        s3 == IF /\ s2.p2_i # None
                 /\ i > s2.p2_i[1]
                 /\ pl[i] # None
                 /\ (s2.p1_val = None \/ pl[i][1] > s2.p1_val[1])
                 /\ s2.p3_val = None
              THEN [s2 EXCEPT !.p3_val = pl[i], !.p3_i = Some(i)]
              ELSE s2
    IN  s3

\* LongStep, were point 2 moved by every later pivot high
LongStepOverwriteP2(ph, pl, i, s) ==
    LET s1 == IF pl[i] # None /\ (s.p1_val = None \/ pl[i][1] < s.p1_val[1])
              THEN [p1_i |-> Some(i), p1_val |-> pl[i],
                    p2_i |-> None, p2_val |-> None,
                    p3_i |-> None, p3_val |-> None]
              ELSE s
        s2 == IF /\ s1.p1_i # None
                 /\ i > s1.p1_i[1]
                 /\ ph[i] # None
              THEN [s1 EXCEPT !.p2_val = ph[i], !.p2_i = Some(i)]
              ELSE s1
        s3 == IF /\ s2.p2_i # None
                 /\ i > s2.p2_i[1]
                 /\ pl[i] # None
                 /\ (s2.p1_val = None \/ pl[i][1] > s2.p1_val[1])
                 /\ s2.p3_val = None
              THEN [s2 EXCEPT !.p3_val = pl[i], !.p3_i = Some(i)]
              ELSE s2
    IN  s3

\* LONG, candle i
LongStep(ph, pl, i, s) ==
    LET s1 == IF pl[i] # None /\ (s.p1_val = None \/ pl[i][1] < s.p1_val[1])
              THEN [p1_i |-> Some(i), p1_val |-> pl[i],
                    p2_i |-> None, p2_val |-> None,
                    p3_i |-> None, p3_val |-> None]
              ELSE s
        s2 == IF /\ s1.p1_i # None
                 /\ i > s1.p1_i[1]
                 /\ ph[i] # None
                 /\ s1.p2_val = None
              THEN [s1 EXCEPT !.p2_val = ph[i], !.p2_i = Some(i)]
              ELSE s1
        s3 == IF /\ s2.p2_i # None
                 /\ i > s2.p2_i[1]
                 /\ pl[i] # None
                 /\ (s2.p1_val = None \/ pl[i][1] > s2.p1_val[1])
                 /\ s2.p3_val = None
              THEN [s2 EXCEPT !.p3_val = pl[i], !.p3_i = Some(i)]
              ELSE s2
    IN  s3

\* IsBos, were a close at the price of point 2 a break
IsBosOrEqual(seq, direction, i, s) ==
    /\ s.p2_val # None
    /\ i > (IF s.p3_i # None THEN s.p3_i[1] ELSE s.p2_i[1])
    /\ LET eps == Abs(s.p2_val[1]) * BOS_MIN_PCT
       IN  IF direction = "SHORT"
           THEN U(seq[i].close) <= U(s.p2_val[1]) - eps
           ELSE U(seq[i].close) >= U(s.p2_val[1]) + eps

\* the BOS test at candle i, after the points were updated: only the close counts
IsBos(seq, direction, i, s) ==
    /\ s.p2_val # None
    /\ i > (IF s.p3_i # None THEN s.p3_i[1] ELSE s.p2_i[1])
    /\ LET eps == Abs(s.p2_val[1]) * BOS_MIN_PCT
       IN  IF direction = "SHORT"
           THEN U(seq[i].close) < U(s.p2_val[1]) - eps
           ELSE U(seq[i].close) > U(s.p2_val[1]) + eps

Structure(seq, direction, i, s) ==
    [direction |-> direction,
     p2 |-> [ts |-> seq[s.p2_i[1]].ts, price |-> s.p2_val[1]],
     p3 |-> IF s.p3_i # None
            THEN Some([ts |-> seq[s.p3_i[1]].ts, price |-> s.p3_val[1]])
            ELSE None,
     bos |-> [ts |-> seq[i].ts, close |-> seq[i].close]]

\* for i in range(len(seq)): update the points, return at the first BOS
RECURSIVE Scan(_, _, _, _, _, _)
Scan(seq, direction, ph, pl, i, s) ==
    IF i > Len(seq) THEN None
    ELSE LET t == IF direction = "SHORT"
                  THEN ShortStep(ph, pl, i, s)
                  ELSE LongStep(ph, pl, i, s)
         IN  IF IsBos(seq, direction, i, t)
             THEN Some(Structure(seq, direction, i, t))
             ELSE Scan(seq, direction, ph, pl, i + 1, t)

\* the values p1, p2, p3 take along the loop: the entry of index i is what
\* they are when candle i has been looked at; the loop ends at the first BOS
RECURSIVE Trace(_, _, _, _, _, _)
Trace(seq, direction, ph, pl, i, s) ==
    IF i > Len(seq) THEN <<>>
    ELSE LET t == IF direction = "SHORT"
                  THEN ShortStep(ph, pl, i, s)
                  ELSE LongStep(ph, pl, i, s)
         IN  IF IsBos(seq, direction, i, t)
             THEN <<t>>
             ELSE <<t>> \o Trace(seq, direction, ph, pl, i + 1, t)

\* the first index whose ts is at or after p1_ts (0 when none)
RECURSIVE FirstAtOrAfter(_, _, _)
FirstAtOrAfter(h1, i, p1_ts) ==
    IF i > Len(h1) THEN 0
    ELSE IF h1[i].ts >= p1_ts THEN i
    ELSE FirstAtOrAfter(h1, i + 1, p1_ts)

\* ClosedFrom, were the bar in progress to be kept
ClosedFromAll(h1, idx0) == SubSeq(h1, idx0, Len(h1))

\* seq = h1[idx0:-1]: the closed candles from the touch candle on
ClosedFrom(h1, idx0) == SubSeq(h1, idx0, Len(h1) - 1)

\* h1: the candles get_klines(symbol, "1h", H1_LOOKBACK_BARS) returned
detect_structure(h1, direction, p1_ts) ==
    IF Len(h1) < MinStructBars THEN None
    ELSE LET idx0 == FirstAtOrAfter(h1, 1, p1_ts)
         IN  IF idx0 = 0 THEN None
             ELSE LET seq == ClosedFrom(h1, idx0)
                  IN  IF Len(seq) < MinSeqBars THEN None
                      ELSE Scan(seq, direction,
                                pivots_high(seq, H1_PIVOT_LEFT, H1_PIVOT_RIGHT),
                                pivots_low(seq, H1_PIVOT_LEFT, H1_PIVOT_RIGHT),
                                1, ScanInit)

(***************************************************************************)
(* Retest (src/main.py:665-687)                                            *)
(***************************************************************************)
\* RetestFrom, were P3 looked at before P2
RECURSIVE RetestFromP3First(_, _, _, _, _, _)
RetestFromP3First(after, i, p2_price, tol2, p3_price, tol3) ==
    IF i > Len(after) THEN None
    ELSE LET c == after[i]
         IN  IF /\ p3_price # None
                /\ tol3 # None
                /\ in_range(p3_price[1], c.low, c.high, tol3[1])
             THEN Some([ts |-> c.ts, price |-> p3_price[1], which |-> "P3"])
             ELSE IF in_range(p2_price, c.low, c.high, tol2)
                  THEN Some([ts |-> c.ts, price |-> p2_price, which |-> "P2"])
                  ELSE RetestFromP3First(after, i + 1, p2_price, tol2, p3_price, tol3)

\* for c in after: P2 is looked at before P3
RECURSIVE RetestFrom(_, _, _, _, _, _)
RetestFrom(after, i, p2_price, tol2, p3_price, tol3) ==
    IF i > Len(after) THEN None
    ELSE LET c == after[i]
         IN  IF in_range(p2_price, c.low, c.high, tol2)
             THEN Some([ts |-> c.ts, price |-> p2_price, which |-> "P2"])
             ELSE IF /\ p3_price # None
                     /\ tol3 # None
                     /\ in_range(p3_price[1], c.low, c.high, tol3[1])
                  THEN Some([ts |-> c.ts, price |-> p3_price[1], which |-> "P3"])
                  ELSE RetestFrom(after, i + 1, p2_price, tol2, p3_price, tol3)

\* detect_retest, were the BOS candle itself to be looked at
detect_retestFromBos(h1, direction, bos_ts, p2_price, p3_price) ==
    IF Len(h1) < MinRetestBars THEN None
    ELSE LET closed == SubSeq(h1, 1, Len(h1) - 1)
             after == SelectSeq(closed, LAMBDA c : c.ts >= bos_ts)
         IN  IF Len(after) = 0 THEN None
             ELSE RetestFrom(after, 1, p2_price,
                             pct_tol(p2_price, RETEST_TOL_PCT),
                             p3_price,
                             IF p3_price # None /\ p3_price[1] # 0
                             THEN Some(pct_tol(p3_price[1], RETEST_TOL_PCT))
                             ELSE None)

\* p3_price is None or Some(price); a p3_price of 0 is falsy and gets no tolerance
detect_retest(h1, direction, bos_ts, p2_price, p3_price) ==
    IF Len(h1) < MinRetestBars THEN None
    ELSE LET closed == SubSeq(h1, 1, Len(h1) - 1)
             after == SelectSeq(closed, LAMBDA c : c.ts > bos_ts)
         IN  IF Len(after) = 0 THEN None
             ELSE RetestFrom(after, 1, p2_price,
                             pct_tol(p2_price, RETEST_TOL_PCT),
                             p3_price,
                             IF p3_price # None /\ p3_price[1] # 0
                             THEN Some(pct_tol(p3_price[1], RETEST_TOL_PCT))
                             ELSE None)

(***************************************************************************)
(* The market.  Every symbol has a D1 series, which does not change, and   *)
(* an H1 series: a recorded stretch followed by one candle for every hour  *)
(* that passes, its shape drawn from a menu.  The last H1 candle is the    *)
(* bar in progress.  Symbol "A" carries a SHORT set-up, "B" the same       *)
(* series mirrored (a LONG set-up) with a lower last swing.  A candle is   *)
(* written <<open, high, low, close>>.                                     *)
(***************************************************************************)
Symbols == <<"A", "B">>

SymbolSet == {Symbols[i] : i \in 1..Len(Symbols)}

Directions == {"SHORT", "LONG"}

Candle(ts, r) == [ts |-> ts, open |-> r[1], high |-> r[2], low |-> r[3], close |-> r[4]]

Mirror(r) == <<2000 - r[1], 2000 - r[3], 2000 - r[2], 2000 - r[4]>>

D1Raw ==
    << <<1060, 1070, 1040, 1050>>, <<1050, 1060, 1030, 1040>>, <<1040, 1050, 1020, 1030>>,
       <<1030, 1040,  990, 1035>>, <<1035, 1050, 1020, 1045>>, <<1045, 1060, 1030, 1055>>,
       <<1055, 1070, 1040, 1060>>, <<1060, 1080, 1050, 1075>>, <<1075, 1078, 1050, 1055>>,
       <<1055, 1065, 1040, 1045>>, <<1045, 1055, 1030, 1035>>, <<1035, 1045, 1020, 1025>>,
       <<1025, 1035, 1010, 1015>>, <<1015, 1030, 1005, 1010>>, <<1010, 1025, 1000, 1005>>,
       <<1005, 1018, 1000, 1002>>, <<1002, 1012,  994,  996>>, << 996, 1010,  992, 1004>>,
       <<1000, 1005,  980,  985>>, << 985,  988,  940,  950>> >>

H1Pre == [i \in 1..10 |-> <<950, 955, 945, 950>>]

H1Body ==
    << <<955, 980, 950, 970>>, <<970, 975, 960, 962>>, <<962, 968, 950, 952>>,
       <<952, 958, 940, 942>>, <<942, 948, 930, 932>>, <<932, 938, 920, 922>>,
       <<922, 928, 910, 912>>, <<912, 918, 900, 902>>, <<902, 908, 890, 905>>,
       <<905, 915, 898, 912>>, <<912, 922, 905, 920>>, <<920, 930, 912, 926>>,
       <<926, 940, 920, 930>>, <<930, 934, 918, 920>>, <<920, 925, 908, 910>>,
       <<910, 916, 900, 912>>, <<912, 920, 905, 918>>, <<918, 928, 910, 925>>,
       <<925, 945, 915, 920>>, <<920, 922, 885, 888>> >>

\* the same stretch with a last swing high below the first one
H1BodyLow == [H1Body EXCEPT ![19] = <<925, 935, 915, 920>>]

\* the shapes of a new candle: one that comes back to the broken level, and
\* one that gaps up into the D1 block
Menu == {"R", "T"}

MenuRaw(m) == IF m = "R" THEN <<888, 899, 880, 890>> ELSE <<960, 980, 955, 970>>

D1Series ==
    [s \in SymbolSet |->
        [i \in 1..Len(D1Raw) |->
            Candle(i, IF s = "A" THEN D1Raw[i] ELSE Mirror(D1Raw[i]))]]

H1Recorded ==
    [s \in SymbolSet |->
        IF s = "A" THEN H1Pre \o H1Body
        ELSE [i \in 1..(Len(H1Pre) + Len(H1BodyLow)) |-> Mirror((H1Pre \o H1BodyLow)[i])]]

\* the ts of a candle is its hour; the recorded stretch ends at an hour 9
H1Raw(s, appended) ==
    H1Recorded[s] \o
    [i \in 1..Len(appended) |->
        IF s = "A" THEN MenuRaw(appended[i]) ELSE Mirror(MenuRaw(appended[i]))]

H1Series(s, appended) ==
    LET raw == H1Raw(s, appended)
    IN  [i \in 1..Len(raw) |-> Candle(3 + i, raw[i])]

(***************************************************************************)
(* State (src/main.py:124-183).  The state file holds the session id of    *)
(* every symbol ("" when it has none), the sent ledger (a dict whose       *)
(* values are all True: its keys, in insertion order), rr_index and the    *)
(* last heartbeat hour key.  A read that fails for any reason yields {}.   *)
(***************************************************************************)
EmptyState ==
    [session |-> [s \in SymbolSet |-> ""],
     sent |-> <<>>,
     rr_index |-> 0,
     last_heartbeat_hour_key |-> ""]

Range(f) == {f[i] : i \in DOMAIN f}

\* _load_state: {} when the file is missing or cannot be read
load_state(file, readFails) == IF readFails THEN EmptyState ELSE file

get_symbol_session_id(file, symbol, readFails) ==
    load_state(file, readFails).session[symbol]

\* what set_symbol_session_id hands to _save_state
set_symbol_session_id(file, symbol, session_id, readFails) ==
    [load_state(file, readFails) EXCEPT !.session[symbol] = session_id]

\* f"{symbol}|{direction}|{session_id}"
SentKey(symbol, direction, session_id) ==
    symbol \o "|" \o direction \o "|" \o session_id

was_sent(file, symbol, direction, session_id, readFails) ==
    SentKey(symbol, direction, session_id) \in Range(load_state(file, readFails).sent)

\* st["sent"][key] = True: a new key goes last, a known key keeps its place
PutKey(sent, key) == IF key \in Range(sent) THEN sent ELSE Append(sent, key)

\* Evict, were the slice to keep the first 4500 items
EvictNewest(sent) ==
    IF Len(sent) > SentCap
    THEN SubSeq(sent, 1, SentKeep)
    ELSE sent

\* if len(st["sent"]) > 6000: keep the last 4500 items
Evict(sent) ==
    IF Len(sent) > SentCap
    THEN SubSeq(sent, Len(sent) - SentKeep + 1, Len(sent))
    ELSE sent

\* what mark_sent hands to _save_state
mark_sent(file, symbol, direction, session_id, readFails) ==
    LET st == load_state(file, readFails)
    IN  [st EXCEPT !.sent = Evict(PutKey(st.sent, SentKey(symbol, direction, session_id)))]

get_rr_index(file, readFails) == load_state(file, readFails).rr_index

set_rr_index(file, i, readFails) ==
    [load_state(file, readFails) EXCEPT !.rr_index = i]

get_last_heartbeat_hour_key(file, readFails) ==
    load_state(file, readFails).last_heartbeat_hour_key

set_last_heartbeat_hour_key(file, k, readFails) ==
    [load_state(file, readFails) EXCEPT !.last_heartbeat_hour_key = k]

(***************************************************************************)
(* Telegram (src/main.py:190-202): without a token or chat id the text is  *)
(* printed and the call returns; otherwise it is posted, and the call      *)
(* raises unless the answer is ok.                                         *)
(***************************************************************************)
send_telegram(configured, postFails) ==
    IF ~configured THEN "printed"
    ELSE IF postFails THEN "raised"
    ELSE "delivered"

(***************************************************************************)
(* Faults.  A step draws the set of its calls that fail: "k1".."k5" the    *)
(* get_klines calls of a pass in the order they are made, "r1".."r5" its   *)
(* reads of the state file, "w1", "w2" its writes, "tg" the post to        *)
(* Telegram, "uni" the universe fetch.  A fault of a call that is not      *)
(* reached does nothing.  get_klines keeps its answers for                 *)
(* KLINES_CACHE_SEC seconds, so "k4" and "k5", which repeat the request of *)
(* "k3", fail only when the cached answer has expired by then.             *)
(***************************************************************************)
RECURSIVE UpTo(_, _)
\* the subsets of S with at most n members
UpTo(S, n) ==
    IF n = 0 THEN {{}}
    ELSE LET P == UpTo(S, n - 1) IN P \cup {p \cup {f} : p \in P, f \in S}

ProcFaults == {"k1", "k2", "k3", "k4", "k5", "r1", "r2", "r3", "r4", "r5", "w1", "w2", "tg"}

ProcFaultSets == UpTo(ProcFaults, MaxFaults)

TickFaults == {"uni", "r1", "r2", "w1"}

TickFaultSets == UpTo(TickFaults, MaxFaults)

BeatFaults == {"r1", "r2", "w1", "tg"}

BeatFaultSets == UpTo(BeatFaults, MaxFaults)

(***************************************************************************)
(* process_symbol (src/main.py:769-834)                                    *)
(***************************************************************************)
\* What the detectors return on the candles of one pass, each computed only
\* when the pass reaches it: blocks, the engulfing filter, the touch, the
\* structure, the retest.
Observe(d1all, h1all) ==
    LET blocks == find_d1_blocks(get_klines(d1all, D1Limit))
        d1 == get_klines(d1all, EngulfBars)
        engulfed == Len(d1) >= 2 /\ is_engulfing(d1[Len(d1) - 1], d1[Len(d1)])
        h1 == get_klines(h1all, H1_LOOKBACK_BARS)
        p1 == IF blocks = <<>> \/ engulfed THEN None
              ELSE find_touch(h1, blocks[1])
        st == IF p1 = None THEN None
              ELSE detect_structure(h1, blocks[1].dir, p1[1].ts)
        ret == IF st = None THEN None
               ELSE detect_retest(h1, blocks[1].dir, st[1].bos.ts, st[1].p2.price,
                                  IF st[1].p3 # None THEN Some(st[1].p3[1].price) ELSE None)
    IN  [blocks |-> blocks, engulfed |-> engulfed, p1 |-> p1, st |-> st, ret |-> ret]

\* the fields format_signal puts into the message
format_signal(symbol, d1_block, p1, st, ret) ==
    [symbol |-> symbol, direction |-> st.direction, d1_block |-> d1_block,
     p1 |-> p1, p2 |-> st.p2, p3 |-> st.p3, bos |-> st.bos, retest |-> ret]

\* what a pass hands back: the phase, the state file it leaves, the signal
\* it delivered if any, and the session id, structure and retest it worked with
Result(phase, file, delivered, session_id, st, ret) ==
    [phase |-> phase, file |-> file, delivered |-> delivered,
     session_id |-> session_id, st |-> st, ret |-> ret]

\* SessionDiffers, were the session id to be fixed only when none is stored
SessionDiffersUnset(stored, session_id) == stored = ""

\* if get_symbol_session_id(symbol) != session_id
SessionDiffers(stored, session_id) == stored # session_id

\* FinalPhase, were a BOS without a retest to be reported as a break awaited
FinalPhaseBreak(ret) == IF ret = None THEN "WAIT_BREAK" ELSE "DONE"

\* the phase of a pass that found a BOS
FinalPhase(ret) == IF ret = None THEN "WAIT_RETEST" ELSE "DONE"

\* lines 818-831: the anti-spam check, the delivery, the record
Notify(symbol, file, d1_block, p1, st, ret, F, configured) ==
    LET direction == d1_block.dir
        session_id == ToString(p1.ts)
        sid == get_symbol_session_id(file, symbol, "r3" \in F)
    IN  IF sid = "" THEN Result("WAIT_TOUCH", file, None, session_id, Some(st), ret)
        ELSE IF was_sent(file, symbol, direction, sid, "r4" \in F)
        THEN Result(FinalPhase(ret), file, None, session_id, Some(st), ret)
        ELSE LET msg == format_signal(symbol, d1_block, p1, st, ret)
                 out == send_telegram(configured, "tg" \in F)
                 got == IF out = "delivered" THEN Some(msg) ELSE None
             IN  IF out = "raised"
                 THEN Result("ERR", file, None, session_id, Some(st), ret)
                 ELSE IF "w2" \in F
                 THEN Result("ERR", file, got, session_id, Some(st), ret)
                 ELSE Result(FinalPhase(ret),
                             mark_sent(file, symbol, direction, sid, "r5" \in F),
                             got, session_id, Some(st), ret)

\* lines 801-816: the session id is fixed on the touch, then structure and retest
Track(symbol, file, obs, F, configured) ==
    LET p1 == obs.p1[1]
        d1_block == obs.blocks[1]
        session_id == ToString(p1.ts)
        differs == SessionDiffers(get_symbol_session_id(file, symbol, "r1" \in F), session_id)
        file1 == IF differs
                 THEN set_symbol_session_id(file, symbol, session_id, "r2" \in F)
                 ELSE file
    IN  IF differs /\ "w1" \in F
        THEN Result("ERR", file, None, session_id, None, None)
        ELSE IF "k4" \in F
        THEN Result("ERR", file1, None, session_id, None, None)
        ELSE IF obs.st = None
        THEN Result("WAIT_BREAK", file1, None, session_id, None, None)
        ELSE IF "k5" \in F
        THEN Result("ERR", file1, None, session_id, obs.st, None)
        ELSE Notify(symbol, file1, d1_block, p1, obs.st[1], obs.ret, F, configured)

\* obs: what the detectors return on the symbol's candles (Observe); F: the
\* calls of this pass that fail; configured: TG_TOKEN and TG_CHAT_ID are set
process_symbol(symbol, file, obs, F, configured) ==
    IF "k1" \in F THEN Result("ERR", file, None, "", None, None)
    ELSE IF obs.blocks = <<>> THEN Result("WAIT_TOUCH", file, None, "", None, None)
    ELSE IF "k2" \in F THEN Result("ERR", file, None, "", None, None)
    ELSE IF obs.engulfed THEN Result("WAIT_TOUCH", file, None, "", None, None)
    ELSE IF "k3" \in F THEN Result("ERR", file, None, "", None, None)
    ELSE IF obs.p1 = None THEN Result("WAIT_TOUCH", file, None, "", None, None)
    ELSE Track(symbol, file, obs, F, configured)

(***************************************************************************)
(* pick_round_robin (src/main.py:756-767).  set_rr_index writes the state  *)
(* file; when the write fails the exception leaves pick_round_robin.       *)
(***************************************************************************)
pick_round_robin(file, symbols, F) ==
    IF Len(symbols) = 0 THEN [batch |-> <<>>, file |-> file, raised |-> FALSE]
    ELSE LET idx == get_rr_index(file, "r1" \in F)
             n == Len(symbols)
             k == Max2(1, Min2(SYMBOLS_PER_TICK, n))
             batch == [j \in 1..k |-> symbols[((idx + j - 1) % n) + 1]]
         IN  IF "w1" \in F
             THEN [batch |-> batch, file |-> file, raised |-> TRUE]
             ELSE [batch |-> batch,
                   file |-> set_rr_index(file, (idx + k) % n, "r2" \in F),
                   raised |-> FALSE]

\* should_send_heartbeat: the window [start, end) of the hour of the day
should_send_heartbeat(ts) ==
    HEARTBEAT_START_HOUR_MSK <= ts % 24 /\ ts % 24 < HEARTBEAT_END_HOUR_MSK

\* heartbeat_key: the date and the hour
heartbeat_key(ts) == ToString(ts)

\* CountErr, were the error branch to leave errs alone
CountErrNever(errs, phase) == errs

\* errs after the phase of one instrument was counted (lines 863-872)
CountErr(errs, phase) ==
    IF phase \in {"WAIT_TOUCH", "WAIT_BREAK", "WAIT_RETEST", "DONE"} THEN errs ELSE errs + 1

\* get_futures_universe (src/main.py:217-261): the list, or an exception
get_futures_universe(fetchFails) ==
    [raised |-> fetchFails, symbols |-> IF fetchFails THEN <<>> ELSE Symbols]

\* the fields format_heartbeat puts into the message
format_heartbeat(t, scanned, total, touch, break, retest, e) ==
    [ts |-> t, scanned |-> scanned, total |-> total,
     c_touch |-> touch, c_break |-> break, c_retest |-> retest, errs |-> e]

\* lines 877-886: once per hour, inside the window; a failure is printed
Beat(file, t, msg, F, configured) ==
    LET hk == heartbeat_key(t)
        last_hk == get_last_heartbeat_hour_key(file, "r1" \in F)
        out == send_telegram(configured, "tg" \in F)
    IN  IF ~(should_send_heartbeat(t) /\ hk # last_hk)
        THEN [file |-> file, delivered |-> None]
        ELSE IF out = "raised"
        THEN [file |-> file, delivered |-> None]
        ELSE [file |-> IF "w1" \in F THEN file
                       ELSE set_last_heartbeat_hour_key(file, hk, "r2" \in F),
              delivered |-> IF out = "delivered" THEN Some(msg) ELSE None]

(***************************************************************************)
(* The state of the model.                                                 *)
(***************************************************************************)
VARIABLES
    appended,      \* per symbol, the shapes of the H1 candles of the hours passed
    file,          \* the contents of the state file
    tgConfigured,  \* TG_TOKEN and TG_CHAT_ID are both set
    pc,            \* where main_loop is: start, tick, batch, sleep, crashed
    ticks,         \* scheduler ticks begun
    ts,            \* main_loop's ts: the hour at which the tick began
    errs,          \* main_loop's errs
    all_syms,      \* main_loop's all_syms
    batch,         \* main_loop's batch
    pos,           \* the index in batch of the next instrument
    c_touch, c_break, c_retest, c_done,
    results,       \* history: one entry for every pass of this tick
    outbox,        \* history: every signal Telegram delivered, in order
    heartbeat,     \* history: the last heartbeat Telegram delivered
    reported,      \* history: per symbol, the last pass that returned
                   \* WAIT_BREAK, WAIT_RETEST or DONE
    log,           \* history: the calls made on the sent ledger alone
    arg,           \* a detector examined on its own: the arguments of the call
    run            \* a detector examined on its own: what the call has produced

vars == <<appended, file, tgConfigured, pc, ticks, ts, errs, all_syms, batch, pos,
          c_touch, c_break, c_retest, c_done, results, outbox, heartbeat, reported, log,
          arg, run>>

loopVars == <<ts, errs, all_syms, batch, pos, c_touch, c_break, c_retest, c_done, results>>

\* main_loop and the ledger make no call that is examined on its own
NoCall == [op |-> "none"]

\* the hour now: the ts of the H1 candle in progress
Now == 3 + Len(H1Recorded[Symbols[1]]) + Len(appended[Symbols[1]])

\* the entry a pass leaves in results: its symbol and phase, whether its
\* signal was delivered, the session id of the touch it found, and what was
\* stored and reported for the symbol before it
Pass(symbol, r, before, rep) ==
    [symbol |-> symbol, phase |-> r.phase, delivered |-> r.delivered # None,
     touch |-> r.session_id, stored |-> before.session[symbol],
     prior |-> rep[symbol].phase]

NoReport == [sid |-> "", phase |-> "NONE", st |-> None, ret |-> None]

Init ==
    /\ appended = [s \in SymbolSet |-> <<>>]
    /\ file = EmptyState
    /\ tgConfigured \in BOOLEAN
    /\ pc = "start"
    /\ ticks = 0
    /\ ts = 0
    /\ errs = 0
    /\ all_syms = <<>>
    /\ batch = <<>>
    /\ pos = 1
    /\ c_touch = 0
    /\ c_break = 0
    /\ c_retest = 0
    /\ c_done = 0
    /\ results = <<>>
    /\ outbox = <<>>
    /\ heartbeat = None
    /\ reported = [s \in SymbolSet |-> NoReport]
    /\ log = <<>>
    /\ arg = NoCall
    /\ run = NoCall

\* an hour passes: every H1 series gets the candle of the new hour, the
\* second instrument's being the mirror image of the first's
NewHour ==
    /\ pc \in {"start", "sleep"}
    /\ Len(appended[Symbols[1]]) < MaxHours
    /\ ticks < MaxTicks
    /\ \E m \in Menu :
          appended' = [s \in SymbolSet |-> Append(appended[s], m)]
    /\ UNCHANGED <<file, tgConfigured, pc, ticks, loopVars, outbox, heartbeat, reported, log, arg, run>>

\* lines 838-842: the start message; a failure is swallowed
Startup ==
    /\ pc = "start"
    /\ \E postFails \in BOOLEAN :
          /\ send_telegram(tgConfigured, postFails) \in {"printed", "raised", "delivered"}
          /\ pc' = "tick"
    /\ UNCHANGED <<appended, file, tgConfigured, ticks, loopVars, outbox, heartbeat, reported, log, arg, run>>

\* lines 845-859: the universe, the batch, the counters
TickStart ==
    /\ pc = "tick"
    /\ ticks < MaxTicks
    /\ \E F \in TickFaultSets :
          LET uni == get_futures_universe("uni" \in F)
              pk == pick_round_robin(file, uni.symbols, F)
          IN  /\ ts' = Now
              /\ errs' = IF uni.raised THEN 1 ELSE 0
              /\ all_syms' = uni.symbols
              /\ file' = pk.file
              /\ IF pk.raised
                 THEN /\ pc' = "crashed"
                      /\ UNCHANGED <<batch, pos, c_touch, c_break, c_retest, c_done, results>>
                 ELSE /\ pc' = "batch"
                      /\ batch' = pk.batch
                      /\ pos' = 1
                      /\ c_touch' = 0
                      /\ c_break' = 0
                      /\ c_retest' = 0
                      /\ c_done' = 0
                      /\ results' = <<>>
    /\ ticks' = ticks + 1
    /\ UNCHANGED <<appended, tgConfigured, outbox, heartbeat, reported, log, arg, run>>

\* lines 861-875: one instrument of the batch
ProcessNext ==
    /\ pc = "batch"
    /\ pos <= Len(batch)
    /\ \E obs \in {Observe(D1Series[batch[pos]], H1Series(batch[pos], appended[batch[pos]]))} :
       \E F \in ProcFaultSets :
       \E r \in {process_symbol(batch[pos], file, obs, F, tgConfigured)} :
          /\ file' = r.file
          /\ c_touch' = IF r.phase = "WAIT_TOUCH" THEN c_touch + 1 ELSE c_touch
          /\ c_break' = IF r.phase = "WAIT_BREAK" THEN c_break + 1 ELSE c_break
          /\ c_retest' = IF r.phase = "WAIT_RETEST" THEN c_retest + 1 ELSE c_retest
          /\ c_done' = IF r.phase = "DONE" THEN c_done + 1 ELSE c_done
          /\ errs' = CountErr(errs, r.phase)
          /\ results' = Append(results, Pass(batch[pos], r, file, reported))
          /\ outbox' = IF r.delivered # None
                       THEN Append(outbox, r.delivered[1]) ELSE outbox
          /\ reported' =
                IF r.phase \in {"WAIT_BREAK", "WAIT_RETEST", "DONE"}
                THEN [reported EXCEPT ![batch[pos]] =
                         [sid |-> r.session_id, phase |-> r.phase,
                          st |-> r.st, ret |-> r.ret]]
                ELSE reported
    /\ pos' = pos + 1
    /\ UNCHANGED <<appended, tgConfigured, pc, ticks, ts, all_syms, batch, heartbeat, log, arg, run>>

\* lines 877-886: the batch is through; the heartbeat
Heartbeat ==
    /\ pc = "batch"
    /\ pos > Len(batch)
    /\ \E F \in BeatFaultSets :
          LET msg == format_heartbeat(ts, Len(batch), Len(all_syms),
                                      c_touch, c_break, c_retest, errs)
              b == Beat(file, ts, msg, F, tgConfigured)
          IN  /\ file' = b.file
              /\ heartbeat' = IF b.delivered # None THEN b.delivered ELSE heartbeat
    /\ pc' = "sleep"
    /\ UNCHANGED <<appended, tgConfigured, ticks, loopVars, outbox, reported, log, arg, run>>

\* line 889: the pause, then the next tick
Sleep ==
    /\ pc = "sleep"
    /\ pc' = "tick"
    /\ UNCHANGED <<appended, file, tgConfigured, ticks, loopVars, outbox, heartbeat, reported, log, arg, run>>

Next ==
    \/ NewHour
    \/ Startup
    \/ TickStart
    \/ ProcessNext
    \/ Heartbeat
    \/ Sleep

Spec == Init /\ [][Next]_vars

(***************************************************************************)
(* The sent ledger on its own: mark_sent and was_sent called on a ledger   *)
(* that already holds LedgerStart records, the state file readable and     *)
(* writable throughout.                                                    *)
(***************************************************************************)
LedgerTriples ==
    {<<"A", "SHORT", ToString(1)>>,
     <<"A", "SHORT", ToString(LedgerStart + 1)>>,
     <<"A", "SHORT", ToString(LedgerStart + 2)>>,
     <<"B", "LONG", ToString(LedgerStart + 1)>>}

InitLedger ==
    /\ appended = [s \in SymbolSet |-> <<>>]
    /\ file = [EmptyState EXCEPT
                  !.sent = [i \in 1..LedgerStart |-> SentKey("A", "SHORT", ToString(i))]]
    /\ tgConfigured = TRUE
    /\ pc = "start"
    /\ ticks = 0
    /\ ts = 0
    /\ errs = 0
    /\ all_syms = <<>>
    /\ batch = <<>>
    /\ pos = 1
    /\ c_touch = 0
    /\ c_break = 0
    /\ c_retest = 0
    /\ c_done = 0
    /\ results = <<>>
    /\ outbox = <<>>
    /\ heartbeat = None
    /\ reported = [s \in SymbolSet |-> NoReport]
    /\ log = <<>>
    /\ arg = NoCall
    /\ run = NoCall

LedgerMark ==
    /\ Len(log) < MaxCalls
    /\ \E t \in LedgerTriples :
          /\ file' = mark_sent(file, t[1], t[2], t[3], FALSE)
          /\ log' = Append(log, [op |-> "mark_sent", key |-> SentKey(t[1], t[2], t[3]),
                                 answer |-> TRUE])
    /\ UNCHANGED <<appended, tgConfigured, pc, ticks, loopVars, outbox, heartbeat, reported, arg, run>>

LedgerAsk ==
    /\ Len(log) < MaxCalls
    /\ \E t \in LedgerTriples :
          log' = Append(log, [op |-> "was_sent", key |-> SentKey(t[1], t[2], t[3]),
                              answer |-> was_sent(file, t[1], t[2], t[3], FALSE)])
    /\ UNCHANGED <<appended, file, tgConfigured, pc, ticks, loopVars, outbox, heartbeat, reported, arg, run>>

NextLedger ==
    \/ LedgerMark
    \/ LedgerAsk

SpecLedger == InitLedger /\ [][NextLedger]_vars

(***************************************************************************)
(* The detectors on their own.  While one is examined the variables of     *)
(* main_loop stay as they are at construction.                             *)
(***************************************************************************)
progVars == <<appended, file, tgConfigured, pc, ticks, loopVars, outbox, heartbeat,
              reported, log>>

Parked ==
    /\ appended = [s \in SymbolSet |-> <<>>]
    /\ file = EmptyState
    /\ tgConfigured = TRUE
    /\ pc = "start"
    /\ ticks = 0
    /\ ts = 0
    /\ errs = 0
    /\ all_syms = <<>>
    /\ batch = <<>>
    /\ pos = 1
    /\ c_touch = 0
    /\ c_break = 0
    /\ c_retest = 0
    /\ c_done = 0
    /\ results = <<>>
    /\ outbox = <<>>
    /\ heartbeat = None
    /\ reported = [s \in SymbolSet |-> NoReport]
    /\ log = <<>>

(***************************************************************************)
(* The pivot helpers (src/main.py:296-334) called with every sequence of   *)
(* at most MaxLen candles whose prices lie in 1..MaxPrice, and every left  *)
(* and right in 0..MaxWin.  Only the high and the low of a candle are      *)
(* read.                                                                   *)
(***************************************************************************)
Bars == {b \in [high : 1..MaxPrice, low : 1..MaxPrice] : b.low <= b.high}

BarSeqs == UNION {[1..n -> Bars] : n \in 0..MaxLen}

InitPivots ==
    /\ Parked
    /\ arg \in [op : {"pivots"}, candles : BarSeqs, left : 0..MaxWin, right : 0..MaxWin]
    /\ run = [op |-> "pivots", high |-> None, low |-> None]

PivotsHigh ==
    /\ arg.op = "pivots"
    /\ run.high = None
    /\ run' = [run EXCEPT !.high = Some(pivots_high(arg.candles, arg.left, arg.right))]
    /\ UNCHANGED <<arg, progVars>>

PivotsLow ==
    /\ arg.op = "pivots"
    /\ run.low = None
    /\ run' = [run EXCEPT !.low = Some(pivots_low(arg.candles, arg.left, arg.right))]
    /\ UNCHANGED <<arg, progVars>>

NextPivots ==
    \/ PivotsHigh
    \/ PivotsLow

SpecPivots == InitPivots /\ [][NextPivots]_vars

(***************************************************************************)
(* detect_structure and detect_retest (src/main.py:536-687) called, hour   *)
(* after hour, on the H1 series of one session.  The series is a flat      *)
(* stretch, then the touch candle and NumLegs swings of LegLen candles     *)
(* each, every swing ending at one of the levels 0..MaxLevel, then one     *)
(* candle for every hour that passes; the last candle is the bar in        *)
(* progress.  A candle of a swing closes at its low when the swing falls   *)
(* and at its high when it rises; the candle that ends swing SlamLeg may   *)
(* instead close far below its high.  The LONG session has the mirror      *)
(* image of the series.                                                    *)
(***************************************************************************)
BasePrice == 1000
Tick == 10
HalfRange == 5
StartLevel == 1
PreLen == 10
SlamLeg == 3
SlamDrop == 2 * LegLen * Tick
SurgeRise == 3 * LegLen * Tick

\* the levels the swings end at, the touch candle's level first
Paths == {<<StartLevel>> \o w : w \in [1..NumLegs -> 0..MaxLevel]}

\* the middle of candle k (0 is the touch candle) of the swings along path
BodyMid(path, k) ==
    LET a == path[(k \div LegLen) + 1]
        b == IF k % LegLen = 0 THEN a ELSE path[(k \div LegLen) + 2]
    IN  BasePrice + (a * LegLen + (b - a) * (k % LegLen)) * Tick

BodyRaw(path, slam, k) ==
    LET m == BodyMid(path, k)
        p == IF k = 0 THEN m ELSE BodyMid(path, k - 1)
    IN  IF slam # 0 /\ k = slam * LegLen
        THEN <<m + HalfRange, m + HalfRange,
               m - HalfRange - SlamDrop, m - HalfRange - SlamDrop>>
        ELSE IF m < p THEN <<m + HalfRange, m + HalfRange, m - HalfRange, m - HalfRange>>
        ELSE IF m > p THEN <<m - HalfRange, m + HalfRange, m - HalfRange, m + HalfRange>>
        ELSE <<m, m + HalfRange, m - HalfRange, m>>

\* the shapes of the candle of a new hour, given the close before it: one
\* that falls a tick, and one that rises across several levels
ScanMenu == {"fall", "surge"}

ShapeRaw(c0, m) ==
    IF m = "fall" THEN <<c0, c0, c0 - Tick, c0 - Tick>>
    ELSE <<c0, c0 + SurgeRise, c0, c0 + SurgeRise>>

NextCandle(direction, h1, m) ==
    LET c0 == h1[Len(h1)].close
    IN  Candle(h1[Len(h1)].ts + 1,
               IF direction = "SHORT" THEN ShapeRaw(c0, m)
               ELSE Mirror(ShapeRaw(2000 - c0, m)))

\* the series at the first pass: the bar in progress is a falling one
ScanSeries(direction, path, slam) ==
    LET raw == [i \in 1..PreLen |-> BodyRaw(path, 0, 0)]
               \o [k \in 1..(NumLegs * LegLen + 1) |-> BodyRaw(path, slam, k - 1)]
        closed == [i \in 1..Len(raw) |->
                      Candle(i, IF direction = "SHORT" THEN raw[i] ELSE Mirror(raw[i]))]
    IN  Append(closed, NextCandle(direction, closed, "fall"))

ScanStartLen == PreLen + NumLegs * LegLen + 2

FirstCall == [op |-> "scan", pc |-> "call", seq |-> <<>>, ph |-> <<>>, pl |-> <<>>,
              trail |-> <<>>, out |-> None, ret |-> None, prev |-> <<>>]

InitScan ==
    /\ Parked
    /\ \E direction \in Directions, path \in Paths, slam \in {0, SlamLeg} :
          arg = [op |-> "scan", direction |-> direction,
                 h1 |-> ScanSeries(direction, path, slam),
                 p1_ts |-> PreLen + 1]
    /\ run = FirstCall

\* detect_structure, with the values its loop went through
Detect ==
    /\ arg.op = "scan"
    /\ run.pc = "call"
    /\ \E h1 \in {get_klines(arg.h1, H1_LOOKBACK_BARS)} :
       \E seq \in {IF Len(h1) < MinStructBars \/ FirstAtOrAfter(h1, 1, arg.p1_ts) = 0
                   THEN <<>>
                   ELSE ClosedFrom(h1, FirstAtOrAfter(h1, 1, arg.p1_ts))} :
       \E ph \in {pivots_high(seq, H1_PIVOT_LEFT, H1_PIVOT_RIGHT)} :
       \E pl \in {pivots_low(seq, H1_PIVOT_LEFT, H1_PIVOT_RIGHT)} :
          run' = [run EXCEPT
                     !.pc = "scanned",
                     !.seq = seq,
                     !.ph = ph,
                     !.pl = pl,
                     !.trail = IF Len(seq) < MinSeqBars THEN <<>>
                               ELSE Trace(seq, arg.direction, ph, pl, 1, ScanInit),
                     !.out = detect_structure(h1, arg.direction, arg.p1_ts),
                     !.ret = None]
    /\ UNCHANGED <<arg, progVars>>

\* detect_retest, called as process_symbol calls it when a structure came back
Retest ==
    /\ arg.op = "scan"
    /\ run.pc = "scanned"
    /\ run.out # None
    /\ \E st \in {run.out[1]} :
          run' = [run EXCEPT
                     !.pc = "retested",
                     !.ret = detect_retest(get_klines(arg.h1, H1_LOOKBACK_BARS),
                                           arg.direction, st.bos.ts, st.p2.price,
                                           IF st.p3 # None THEN Some(st.p3[1].price)
                                           ELSE None)]
    /\ UNCHANGED <<arg, progVars>>

\* the pass is over; the bar in progress closes as it stood, the next one
\* begins, and the session is looked at again
Hour ==
    /\ arg.op = "scan"
    /\ run.pc = "retested" \/ (run.pc = "scanned" /\ run.out = None)
    /\ Len(arg.h1) < ScanStartLen + MaxAppend
    /\ \E m \in ScanMenu :
          arg' = [arg EXCEPT !.h1 = Append(arg.h1, NextCandle(arg.direction, arg.h1, m))]
    /\ run' = [FirstCall EXCEPT !.prev = run.trail]
    /\ UNCHANGED progVars

NextScan ==
    \/ Detect
    \/ Retest
    \/ Hour

SpecScan == InitScan /\ [][NextScan]_vars

(***************************************************************************)
(* find_d1_blocks (src/main.py:356-475) called on a daily series.  The     *)
(* series are those of the swing family above, read as daily candles: a    *)
(* flat stretch of candles that close where they opened, then swings of    *)
(* falling (bearish) and rising (bullish) candles, the last candle being   *)
(* the day in progress.  run.cands keeps the blocks in the order the       *)
(* breakout scan appended them, before the sort and the filter.            *)
(***************************************************************************)
BlocksCall == [op |-> "blocks", pc |-> "call", d1 |-> <<>>, highs |-> <<>>,
               lows |-> <<>>, cands |-> <<>>, blocks |-> <<>>]

InitBlocks ==
    /\ Parked
    /\ \E direction \in Directions, path \in Paths, slam \in {0, SlamLeg} :
          arg = [op |-> "blocks", d1 |-> ScanSeries(direction, path, slam)]
    /\ run = BlocksCall

\* find_d1_blocks, with the candidates of its breakout scan
FindBlocks ==
    /\ arg.op = "blocks"
    /\ run.pc = "call"
    /\ \E d1 \in {get_klines(arg.d1, D1Limit)} :
       \E highs \in {Swings(pivots_high(d1, D1_PIVOT_LEFT, D1_PIVOT_RIGHT), 1)} :
       \E lows \in {Swings(pivots_low(d1, D1_PIVOT_LEFT, D1_PIVOT_RIGHT), 1)} :
          run' = [run EXCEPT
                     !.pc = "found",
                     !.d1 = d1,
                     !.highs = highs,
                     !.lows = lows,
                     !.cands = IF Len(d1) < MinD1Bars THEN <<>>
                               ELSE ScanBlocks(d1, D1ScanStart + 1, highs, lows),
                     !.blocks = find_d1_blocks(d1)]
    /\ UNCHANGED <<arg, progVars>>

NextBlocks == FindBlocks

SpecBlocks == InitBlocks /\ [][NextBlocks]_vars

(***************************************************************************)
(* find_touch (src/main.py:480-529) called with a block and an H1 window.  *)
(* The block has its wick range and, inside it, its body range on a grid   *)
(* of prices; the window is a stretch of candles far above the block,      *)
(* then TouchFree closed candles with low and high on a finer grid that    *)
(* has a price on either side of every edge of the widened ranges, then    *)
(* the bar in progress.  Only the low and the high of an H1 candle are     *)
(* read.                                                                   *)
(***************************************************************************)
TouchFree == 2

\* the closed candles ahead of the free ones; one fewer gives a window below
\* the minimum find_touch asks for
TouchPre == MinTouchBars - 1 - TouchFree

TouchBlocks ==
    {[body |-> <<bl, bh>>, wick |-> <<1000, wh>>] :
        bl \in {1000, 1010}, bh \in {1010, 1020}, wh \in {1020, 1030}}

TouchGrid == {990, 997, 998, 1007, 1008, 1012, 1013, 1022, 1023, 1032, 1033, 1040}

TouchCandles == {<<r[1], r[2], r[1], r[2]>> : r \in {q \in TouchGrid \X TouchGrid : q[1] <= q[2]}}

FarCandle == <<1100, 1110, 1100, 1110>>

\* the shapes of the bar in progress: far from the block, and across it
OpenCandles == {FarCandle, <<990, 1040, 990, 1040>>}

TouchWindow(pre, free, open) ==
    LET raw == [i \in 1..pre |-> FarCandle] \o free \o <<open>>
    IN  [i \in 1..Len(raw) |-> Candle(i, raw[i])]

InitTouch ==
    /\ Parked
    /\ \E blk \in TouchBlocks, pre \in {TouchPre - 1, TouchPre},
          free \in [1..TouchFree -> TouchCandles], open \in OpenCandles :
          arg = [op |-> "touch", d1_block |-> blk, h1 |-> TouchWindow(pre, free, open)]
    /\ run = [op |-> "touch", pc |-> "call", p1 |-> None]

Touch ==
    /\ arg.op = "touch"
    /\ run.pc = "call"
    /\ run' = [run EXCEPT
                  !.pc = "touched",
                  !.p1 = find_touch(get_klines(arg.h1, H1_LOOKBACK_BARS), arg.d1_block)]
    /\ UNCHANGED <<arg, progVars>>

NextTouch == Touch

SpecTouch == InitTouch /\ [][NextTouch]_vars

(***************************************************************************)
(* The rotation of main_loop (src/main.py:843-889) over a universe wider   *)
(* than SYMBOLS_PER_TICK.  The universe is fetched every tick and is the   *)
(* same list of SYMBOLS_PER_TICK + 1 .. SYMBOLS_PER_TICK + MaxExtra        *)
(* instruments every time; the state file holds the index some earlier     *)
(* run left.  A tick picks its batch, then the for loop takes the          *)
(* instruments of the batch one by one.  run.turns keeps, for every tick,  *)
(* the instruments the loop has taken.  The accesses of pick_round_robin   *)
(* to the state file may fail as in TickStart.                             *)
(***************************************************************************)
MaxExtra == 2
MaxRounds == 4

Universe(n) == [i \in 1..n |-> "S" \o ToString(i)]

RobinFaults == TickFaults \ {"uni"}

RobinFaultSets == UpTo(RobinFaults, MaxFaults)

InitRobin ==
    /\ appended = [s \in SymbolSet |-> <<>>]
    /\ tgConfigured = TRUE
    /\ pc = "tick"
    /\ ticks = 0
    /\ ts = 0
    /\ errs = 0
    /\ all_syms = <<>>
    /\ batch = <<>>
    /\ pos = 1
    /\ c_touch = 0
    /\ c_break = 0
    /\ c_retest = 0
    /\ c_done = 0
    /\ results = <<>>
    /\ outbox = <<>>
    /\ heartbeat = None
    /\ reported = [s \in SymbolSet |-> NoReport]
    /\ log = <<>>
    /\ \E n \in (SYMBOLS_PER_TICK + 1)..(SYMBOLS_PER_TICK + MaxExtra) :
       \E i \in 0..(n - 1) :
          /\ arg = [op |-> "robin", symbols |-> Universe(n)]
          /\ file = [EmptyState EXCEPT !.rr_index = i]
    /\ run = [op |-> "robin", turns |-> <<>>]

\* lines 846-854: the universe, the batch
RobinTick ==
    /\ arg.op = "robin"
    /\ pc = "tick"
    /\ ticks < MaxRounds
    /\ \E F \in RobinFaultSets :
       \E pk \in {pick_round_robin(file, arg.symbols, F)} :
          /\ all_syms' = arg.symbols
          /\ file' = pk.file
          /\ IF pk.raised
             THEN /\ pc' = "crashed"
                  /\ UNCHANGED <<batch, pos, run>>
             ELSE /\ pc' = "batch"
                  /\ batch' = pk.batch
                  /\ pos' = 1
                  /\ run' = [run EXCEPT !.turns = Append(run.turns, <<>>)]
    /\ ticks' = ticks + 1
    /\ UNCHANGED <<appended, tgConfigured, ts, errs, c_touch, c_break, c_retest, c_done,
                   results, outbox, heartbeat, reported, log, arg>>

\* lines 861-862: the for loop takes the next instrument of the batch
RobinPass ==
    /\ arg.op = "robin"
    /\ pc = "batch"
    /\ pos <= Len(batch)
    /\ run' = [run EXCEPT !.turns[Len(run.turns)] = Append(run.turns[Len(run.turns)], batch[pos])]
    /\ pos' = pos + 1
    /\ UNCHANGED <<appended, file, tgConfigured, pc, ticks, ts, errs, all_syms, batch,
                   c_touch, c_break, c_retest, c_done, results, outbox, heartbeat,
                   reported, log, arg>>

\* line 889: the batch is through; the pause, then the next tick
RobinSleep ==
    /\ arg.op = "robin"
    /\ pc = "batch"
    /\ pos > Len(batch)
    /\ pc' = "tick"
    /\ UNCHANGED <<appended, file, tgConfigured, ticks, loopVars, outbox, heartbeat,
                   reported, log, arg, run>>

NextRobin ==
    \/ RobinTick
    \/ RobinPass
    \/ RobinSleep

SpecRobin == InitRobin /\ [][NextRobin]_vars

(***************************************************************************)
(* Vocabulary of the properties.                                           *)
(***************************************************************************)
Last(sq) == sq[Len(sq)]

\* the step is a pass of process_symbol over batch[pos]
Passed == pc = "batch" /\ pos' = pos + 1

\* the triple a delivered signal belongs to: the session is its touch candle
MsgKey(m) == SentKey(m.symbol, m.direction, ToString(m.p1.ts))

\* the latest hour a candle of the model can carry
Horizon == 3 + Len(H1Recorded[Symbols[1]]) + MaxHours

\* every sent key a symbol can have
KeysOf(symbol) ==
    {SentKey(symbol, d, ToString(t)) : d \in Directions, t \in 1..Horizon}

\* what the state file holds for one symbol: its session id, its sent records
SymState(f, symbol) ==
    <<f.session[symbol], Range(f.sent) \cap KeysOf(symbol)>>

\* index k of a sequence lies in the window of index i: at most w places away
Near(i, k, w) == i # k /\ Abs(i - k) <= w

\* the definition of a pivot high at index k (1-based), written out: k has
\* its whole window inside the sequence, every high of the left candles of
\* the window is lower, and no high of the right candles is greater
IsPivotHigh(candles, left, right, k) ==
    /\ left + 1 <= k
    /\ k <= Len(candles) - right
    /\ \A j \in (k - left)..(k - 1) : candles[j].high < candles[k].high
    /\ \A j \in (k + 1)..(k + right) : candles[j].high <= candles[k].high

IsPivotLow(candles, left, right, k) ==
    /\ left + 1 <= k
    /\ k <= Len(candles) - right
    /\ \A j \in (k - left)..(k - 1) : candles[j].low > candles[k].low
    /\ \A j \in (k + 1)..(k + right) : candles[j].low >= candles[k].low

\* the values of the loop before candle i + 1: ScanInit, then the trail
At(i) == IF i = 0 THEN ScanInit ELSE run.trail[i]

\* the index of the candle the loop returned a BOS at (0: it returned none)
BosAt == IF run.out # None THEN Len(run.trail) ELSE 0

\* the pivot of point 1's kind at candle j, and that of the other kind
Own(j) == IF arg.direction = "SHORT" THEN run.ph[j] ELSE run.pl[j]

Opp(j) == IF arg.direction = "SHORT" THEN run.pl[j] ELSE run.ph[j]

\* a lies beyond b the way point 1 is extended: higher for SHORT, lower for LONG
Beyond(a, b) == IF arg.direction = "SHORT" THEN a > b ELSE a < b

\* the close of candle j lies past the level the way a break goes, by more
\* than abs(level) * BOS_MIN_PCT: below for SHORT, above for LONG
Crosses(j, level) ==
    IF arg.direction = "SHORT"
    THEN U(run.seq[j].close) < U(level) - Abs(level) * BOS_MIN_PCT
    ELSE U(run.seq[j].close) > U(level) + Abs(level) * BOS_MIN_PCT

\* candle j comes after point 3 when there is one, after point 2 otherwise
Eligible(j, a) ==
    /\ a.p2_i # None
    /\ j > (IF a.p3_i # None THEN a.p3_i[1] ELSE a.p2_i[1])

\* the least member of a non-empty set of indices
Least(S) == CHOOSE x \in S : \A y \in S : x <= y

\* [low, high] of candle c, widened by the retest tolerance, holds price x
Holds(c, x) ==
    /\ U(c.low) - Abs(x) * RETEST_TOL_PCT <= U(x)
    /\ U(x) <= U(c.high) + Abs(x) * RETEST_TOL_PCT

\* the candles up to i that carry a pivot of point 1's kind
OwnPivots(i) == {j \in 1..i : Own(j) # None}

\* the most extreme price among them: the highest for SHORT, the lowest for LONG
Extreme(P) ==
    CHOOSE v \in {Own(j)[1] : j \in P} : \A j \in P : ~Beyond(Own(j)[1], v)

\* the running extremum of the candles up to i: max high for SHORT, min low for LONG
RunningExtremum(i) ==
    LET V == {IF arg.direction = "SHORT" THEN run.seq[j].high ELSE run.seq[j].low :
                 j \in 1..i}
    IN  CHOOSE v \in V : \A u \in V : ~Beyond(u, v)

(***************************************************************************)
(* The properties.                                                         *)
(***************************************************************************)

\* C1: across the passes that share the state file, at most one signal is
\* delivered for any (instrument, direction, session id) triple, the session
\* id being the timestamp of the touch candle.
C1_AtMostOnePerSession ==
    \A i, j \in 1..Len(outbox) :
        MsgKey(outbox[i]) = MsgKey(outbox[j]) => i = j

\* C2 as stated: a signal is delivered only on a pass that found both a BOS
\* and a retest after it; a pass that ends WAIT_RETEST delivers nothing.
C2_OnlyWhenRetested ==
    /\ \A i \in 1..Len(outbox) : outbox[i].retest # None
    /\ \A k \in 1..Len(results) : results[k].phase = "WAIT_RETEST" => ~results[k].delivered

\* C2 as amended: a signal is delivered only on a pass that found a BOS, with
\* or without a retest; a pass that ends WAIT_RETEST or DONE leaves the triple
\* recorded, and a WAIT_RETEST pass that found it unrecorded delivered the
\* signal (Telegram being configured) with the retest still awaited; a pass
\* that ends WAIT_TOUCH or WAIT_BREAK delivers nothing and records nothing.
C2_OnlyAfterBos ==
    [][Passed =>
         LET e == Last(results')
             rep == reported'[e.symbol]
             key == SentKey(e.symbol, rep.st[1].direction, rep.sid)
         IN  /\ e.delivered =>
                   /\ e.phase \in {"WAIT_RETEST", "DONE", "ERR"}
                   /\ outbox' = Append(outbox, Last(outbox'))
                   /\ Last(outbox').symbol = e.symbol
             /\ ~e.delivered => outbox' = outbox
             /\ e.phase \in {"WAIT_TOUCH", "WAIT_BREAK"} =>
                   /\ ~e.delivered
                   /\ Range(file'.sent) \subseteq Range(file.sent)
             /\ e.phase \in {"WAIT_RETEST", "DONE"} => key \in Range(file'.sent)
             /\ (e.phase = "WAIT_RETEST" /\ tgConfigured /\ key \notin Range(file.sent)) =>
                   /\ e.delivered
                   /\ Last(outbox').retest = None
    ]_vars

\* C2, the case: a pass ended WAIT_RETEST and delivered the signal, which
\* says that the retest is still awaited
C2_Witness ==
    /\ results # <<>>
    /\ Last(results).phase = "WAIT_RETEST"
    /\ Last(results).delivered
    /\ outbox # <<>>
    /\ Last(outbox).symbol = Last(results).symbol
    /\ Last(outbox).retest = None

\* C3: a triple is recorded as sent only after Telegram delivered its
\* signal: every record of the ledger has a delivered signal behind it.
C3_RecordedOnlyIfDelivered ==
    \A k \in Range(file.sent) :
        \E i \in 1..Len(outbox) : MsgKey(outbox[i]) = k

\* C4: an exception in the pass of one instrument does not abort the batch:
\* the instruments of the batch are processed one after the other, all of
\* them before the tick ends, and the tick's error count is the failed
\* universe fetch, if any, plus one for every pass that ended in ERR.
C4_BatchSurvives ==
    pc \in {"batch", "sleep"} =>
        /\ Len(results) = pos - 1
        /\ \A k \in 1..Len(results) : results[k].symbol = batch[k]
        /\ pc = "sleep" => Len(results) = Len(batch)
        /\ errs = (IF all_syms = <<>> THEN 1 ELSE 0)
                  + Cardinality({k \in 1..Len(results) : results[k].phase = "ERR"})

\* C4, the case: the first instrument of a batch of two failed, the second
\* was processed all the same, and the tick counted one error
C4_Witness ==
    /\ pc = "sleep"
    /\ Len(results) = 2
    /\ results[1].phase = "ERR"
    /\ results[2].phase \in {"WAIT_BREAK", "WAIT_RETEST", "DONE"}
    /\ errs = 1

\* C5: a pass that ends in ERR leaves what the state file holds for its
\* instrument, the session id and the sent records, as it was.
C5_ErrLeavesState ==
    [][(Passed /\ Last(results').phase = "ERR") =>
         SymState(file', batch[pos]) = SymState(file, batch[pos])]_vars

\* C6: no failure of a collaborator (universe fetch, candle fetch, Telegram,
\* a read or a write of the state file) ends main_loop.
C6_LoopNeverEnds == pc # "crashed"

\* C7: a pass over one instrument, the state file unreadable or not, leaves
\* the session ids and the sent records of every other instrument in place.
C7_OthersKept ==
    [][Passed =>
         \A o \in SymbolSet \ {batch[pos]} : SymState(file', o) = SymState(file, o)]_vars

C9_DoneIsTerminal ==
    [][(Passed /\ reported[batch[pos]].phase = "DONE"
               /\ Last(results').phase \in {"WAIT_BREAK", "WAIT_RETEST", "DONE"}
               /\ Last(results').touch = reported[batch[pos]].sid) =>
         reported'[batch[pos]] = reported[batch[pos]]]_vars

C11_PivotsExact ==
    /\ run.high # None =>
          /\ Len(run.high[1]) = Len(arg.candles)
          /\ \A k \in 1..Len(arg.candles) :
                run.high[1][k] =
                    IF IsPivotHigh(arg.candles, arg.left, arg.right, k)
                    THEN Some(arg.candles[k].high) ELSE None
          /\ Len(arg.candles) < arg.left + arg.right + 1 =>
                \A k \in 1..Len(arg.candles) : run.high[1][k] = None
    /\ run.low # None =>
          /\ Len(run.low[1]) = Len(arg.candles)
          /\ \A k \in 1..Len(arg.candles) :
                run.low[1][k] =
                    IF IsPivotLow(arg.candles, arg.left, arg.right, k)
                    THEN Some(arg.candles[k].low) ELSE None
          /\ Len(arg.candles) < arg.left + arg.right + 1 =>
                \A k \in 1..Len(arg.candles) : run.low[1][k] = None

\* a call with both windows open that flags one index and leaves another,
\* whose window is inside the sequence too, unflagged
C11_Witness ==
    /\ run.high # None
    /\ arg.left >= 1
    /\ arg.right >= 1
    /\ \E i, k \in (arg.left + 1)..(Len(arg.candles) - arg.right) :
          /\ run.high[1][i] # None
          /\ run.high[1][k] = None

\* C12 as stated: of two candles with equal highs that lie in each other's
\* window, the earlier is never flagged as a pivot high (lows alike).
C12_TieToLater ==
    /\ run.high # None =>
          \A i, k \in 1..Len(arg.candles) :
             (/\ i < k
              /\ Near(i, k, Min2(arg.left, arg.right))
              /\ arg.candles[i].high = arg.candles[k].high)
             => run.high[1][i] = None
    /\ run.low # None =>
          \A i, k \in 1..Len(arg.candles) :
             (/\ i < k
              /\ Near(i, k, Min2(arg.left, arg.right))
              /\ arg.candles[i].low = arg.candles[k].low)
             => run.low[1][i] = None

\* C12 as the code has it: of two candles with equal highs, the earlier
\* lying in the left window of the later, the later is never flagged as a
\* pivot high; the tie goes to the earlier candle (lows alike).
C12_TieToEarlier ==
    /\ run.high # None =>
          \A i, k \in 1..Len(arg.candles) :
             (/\ i < k
              /\ k - i <= arg.left
              /\ arg.candles[i].high = arg.candles[k].high)
             => run.high[1][k] = None
    /\ run.low # None =>
          \A i, k \in 1..Len(arg.candles) :
             (/\ i < k
              /\ k - i <= arg.left
              /\ arg.candles[i].low = arg.candles[k].low)
             => run.low[1][k] = None

\* two equal highs in each other's window: the earlier is the pivot
C12_Witness ==
    /\ run.high # None
    /\ \E i, k \in 1..Len(arg.candles) :
          /\ i < k
          /\ Near(i, k, Min2(arg.left, arg.right))
          /\ arg.candles[i].high = arg.candles[k].high
          /\ run.high[1][i] # None
          /\ run.high[1][k] = None

\* C13: in a SHORT session the successive prices of p1 never decrease, in
\* a LONG session they never increase: along the candles of one scan, and
\* from one pass to the next of the same session, candle by candle and for
\* the p1 the pass ends with.
C13_P1Monotone ==
    (arg.op = "scan" /\ run.pc # "call") =>
        /\ \A i, j \in 1..Len(run.trail) :
              (i < j /\ run.trail[i].p1_val # None) =>
                 /\ run.trail[j].p1_val # None
                 /\ ~Beyond(run.trail[i].p1_val[1], run.trail[j].p1_val[1])
        /\ \A i \in 1..Min2(Len(run.prev), Len(run.trail)) :
              run.prev[i].p1_val # None =>
                 /\ run.trail[i].p1_val # None
                 /\ ~Beyond(run.prev[i].p1_val[1], run.trail[i].p1_val[1])
        /\ (run.prev # <<>> /\ Last(run.prev).p1_val # None) =>
              /\ run.trail # <<>>
              /\ Last(run.trail).p1_val # None
              /\ ~Beyond(Last(run.prev).p1_val[1], Last(run.trail).p1_val[1])

\* a pass in which p1 moved along the scan and ends beyond the p1 the pass
\* before it ended with
C13_Witness ==
    /\ arg.op = "scan"
    /\ run.pc # "call"
    /\ run.prev # <<>>
    /\ run.trail # <<>>
    /\ Last(run.prev).p1_val # None
    /\ Last(run.trail).p1_val # None
    /\ Beyond(Last(run.trail).p1_val[1], Last(run.prev).p1_val[1])
    /\ \E i, j \in 1..Len(run.trail) :
          /\ i < j
          /\ run.trail[i].p1_val # None
          /\ Beyond(run.trail[j].p1_val[1], run.trail[i].p1_val[1])

\* C14: with BOS_MIN_PCT = 0 a candle that closes at the price of p2 is
\* never the BOS, and a candle after p2 (after p3 when there is one) whose
\* close lies strictly past p2 in the direction of the break is; the BOS
\* candle always closes past p2 by more than abs(p2) * BOS_MIN_PCT.
C14_BosStrict ==
    (arg.op = "scan" /\ run.pc # "call") =>
        \A i \in 1..Len(run.trail) :
           run.trail[i].p2_val # None =>
              /\ (BOS_MIN_PCT = 0 /\ run.seq[i].close = run.trail[i].p2_val[1])
                    => BosAt # i
              /\ (Eligible(i, run.trail[i]) /\ Crosses(i, run.trail[i].p2_val[1]))
                    => BosAt = i
              /\ BosAt = i => Crosses(i, run.trail[i].p2_val[1])

\* a candle after p2 closed at the price of p2 and the scan went on; a
\* later candle closed past it and was the BOS
C14_Witness ==
    /\ arg.op = "scan"
    /\ run.out # None
    /\ \E i \in 1..(Len(run.trail) - 1) :
          /\ Eligible(i, run.trail[i])
          /\ run.seq[i].close = run.trail[i].p2_val[1]
          /\ run.trail[i].p2_i = Last(run.trail).p2_i

\* C15 as stated: at every step of the scan p1 is the running extremum of
\* the closed candles from the touch candle to the current one (max high
\* for SHORT, min low for LONG); at the touch candle it is that candle's
\* high or low.
C15_RunningExtremum ==
    (arg.op = "scan" /\ run.pc # "call") =>
        \A i \in 1..Len(run.trail) :
           run.trail[i].p1_val = Some(RunningExtremum(i))

\* C15 as the code has it: at every step of the scan p1 is unset while no
\* candle from the touch candle to the current one carries a pivot of its
\* kind (pivot high for SHORT, pivot low for LONG), and is otherwise the
\* most extreme of those pivots, at the first candle that carries that
\* price; at the touch candle, which cannot carry a pivot, it is unset.
C15_ExtremePivot ==
    (arg.op = "scan" /\ run.pc # "call") =>
        /\ \A i \in 1..Len(run.trail) :
              IF OwnPivots(i) = {}
              THEN run.trail[i].p1_val = None /\ run.trail[i].p1_i = None
              ELSE /\ run.trail[i].p1_val = Some(Extreme(OwnPivots(i)))
                   /\ run.trail[i].p1_i =
                         Some(Least({j \in OwnPivots(i) :
                                        Own(j)[1] = Extreme(OwnPivots(i))}))
        /\ run.trail # <<>> => run.trail[1].p1_val = None

\* p1 is set, a candle before it that is no pivot went further than p1, and
\* a second pivot at the price of p1 has been passed
C15_Witness ==
    /\ arg.op = "scan"
    /\ run.pc # "call"
    /\ \E i \in 1..Len(run.trail) :
          /\ run.trail[i].p1_val # None
          /\ Beyond(RunningExtremum(i), run.trail[i].p1_val[1])
          /\ \E j \in OwnPivots(i) :
                /\ j > run.trail[i].p1_i[1]
                /\ Own(j) = run.trail[i].p1_val

\* C16: whenever p1 is replaced it is by a strictly more extreme price, p2
\* and p3 are unset in that same step and that candle is not the BOS; p2
\* lies after p1 and p3 after p2, and between the candle of p2 and a BOS
\* p1 has not moved.
C16_ResetOnNewP1 ==
    (arg.op = "scan" /\ run.pc # "call") =>
        /\ \A i \in 1..Len(run.trail) :
              /\ run.trail[i].p1_val # At(i - 1).p1_val =>
                    /\ At(i - 1).p1_val # None =>
                          Beyond(run.trail[i].p1_val[1], At(i - 1).p1_val[1])
                    /\ run.trail[i].p2_i = None
                    /\ run.trail[i].p2_val = None
                    /\ run.trail[i].p3_i = None
                    /\ run.trail[i].p3_val = None
                    /\ BosAt # i
              /\ run.trail[i].p2_i # None =>
                    /\ run.trail[i].p1_i # None
                    /\ run.trail[i].p2_i[1] > run.trail[i].p1_i[1]
              /\ run.trail[i].p3_i # None =>
                    /\ run.trail[i].p2_i # None
                    /\ run.trail[i].p3_i[1] > run.trail[i].p2_i[1]
        /\ run.out # None =>
              \A j \in (Last(run.trail).p2_i[1])..Len(run.trail) :
                 /\ run.trail[j].p1_i = Last(run.trail).p1_i
                 /\ run.trail[j].p2_i = Last(run.trail).p2_i

\* p1 is replaced at a candle before which p2 and p3 were both set
C16_Witness ==
    /\ arg.op = "scan"
    /\ run.pc # "call"
    /\ \E i \in 2..Len(run.trail) :
          /\ run.trail[i - 1].p2_i # None
          /\ run.trail[i - 1].p3_i # None
          /\ run.trail[i].p1_val # run.trail[i - 1].p1_val
          /\ run.trail[i].p2_i = None

\* C17: for the current p1, p2 is the first pivot of the other kind (pivot
\* low for SHORT, pivot high for LONG) at a candle strictly after that of
\* p1; once set it changes only by being unset when p1 is replaced.
C17_P2FirstOppositePivot ==
    (arg.op = "scan" /\ run.pc # "call") =>
        \A i \in 1..Len(run.trail) :
           /\ IF run.trail[i].p1_i = None
              THEN run.trail[i].p2_i = None
              ELSE LET C == {j \in (run.trail[i].p1_i[1] + 1)..i : Opp(j) # None}
                   IN  IF C = {} THEN run.trail[i].p2_i = None /\ run.trail[i].p2_val = None
                       ELSE /\ run.trail[i].p2_i = Some(Least(C))
                            /\ run.trail[i].p2_val = Opp(Least(C))
           /\ (At(i - 1).p2_i # None /\ run.trail[i].p2_i # At(i - 1).p2_i) =>
                 /\ run.trail[i].p2_i = None
                 /\ run.trail[i].p1_val # At(i - 1).p1_val

\* p2 is set and a later pivot of its kind has been passed without moving it
C17_Witness ==
    /\ arg.op = "scan"
    /\ run.pc # "call"
    /\ \E i \in 1..Len(run.trail) :
          /\ run.trail[i].p2_i # None
          /\ \E j \in (run.trail[i].p2_i[1] + 1)..i : Opp(j) # None

\* C18 as stated: for the current p1 and p2, p3 is the first pivot of p1's
\* kind at a candle strictly after that of p2, a pivot at the price of p1
\* included.
C18_P3FirstOwnPivot ==
    (arg.op = "scan" /\ run.pc # "call") =>
        \A i \in 1..Len(run.trail) :
           run.trail[i].p2_i # None =>
              LET C == {j \in (run.trail[i].p2_i[1] + 1)..i : Own(j) # None}
              IN  IF C = {} THEN run.trail[i].p3_i = None
                  ELSE /\ run.trail[i].p3_i = Some(Least(C))
                       /\ run.trail[i].p3_val = Own(Least(C))

\* C18 as the code has it: for the current p1 and p2, p3 is the first pivot
\* of p1's kind at a candle strictly after that of p2 whose price is short
\* of p1's (lower for SHORT, higher for LONG); a pivot at the price of p1
\* is passed over; once set p3 changes only by being unset when p1 is
\* replaced.
C18_P3FirstLesserPivot ==
    (arg.op = "scan" /\ run.pc # "call") =>
        \A i \in 1..Len(run.trail) :
           /\ IF run.trail[i].p2_i = None
              THEN run.trail[i].p3_i = None
              ELSE LET C == {j \in (run.trail[i].p2_i[1] + 1)..i :
                                /\ Own(j) # None
                                /\ Beyond(run.trail[i].p1_val[1], Own(j)[1])}
                   IN  IF C = {} THEN run.trail[i].p3_i = None /\ run.trail[i].p3_val = None
                       ELSE /\ run.trail[i].p3_i = Some(Least(C))
                            /\ run.trail[i].p3_val = Own(Least(C))
           /\ (At(i - 1).p3_i # None /\ run.trail[i].p3_i # At(i - 1).p3_i) =>
                 /\ run.trail[i].p3_i = None
                 /\ run.trail[i].p1_val # At(i - 1).p1_val

\* after p2 a pivot at the price of p1 was passed over, and p3 is a later
\* pivot
C18_Witness ==
    /\ arg.op = "scan"
    /\ run.pc # "call"
    /\ \E i \in 1..Len(run.trail) :
          /\ run.trail[i].p3_i # None
          /\ \E j \in (run.trail[i].p2_i[1] + 1)..(run.trail[i].p3_i[1] - 1) :
                /\ Own(j) # None
                /\ Own(j) = run.trail[i].p1_val

\* C19: the BOS detect_structure reports is the first closed candle after
\* p2, p1 and p2 being those in force at the BOS, whose close crosses the
\* price of p2 in the direction of the break: no candle between p2 and the
\* BOS, the candle at which p3 is set included, has such a close.
C19_BosIsFirstCross ==
    (arg.op = "scan" /\ run.out # None) =>
        \A j \in (Last(run.trail).p2_i[1] + 1)..(Len(run.trail) - 1) :
           (/\ run.trail[j].p1_i = Last(run.trail).p1_i
            /\ run.trail[j].p2_i = Last(run.trail).p2_i)
           => ~Crosses(j, Last(run.trail).p2_val[1])

\* C20: detect_retest returns the first closed candle with a timestamp
\* strictly after that of the BOS whose [low, high], widened by the retest
\* tolerance, holds the price of p2 or that of p3; a candle that holds both
\* is a retest of P2; when there is no such candle it returns none.
C20_FirstRetest ==
    (arg.op = "scan" /\ run.pc = "retested") =>
        LET st == run.out[1]
            Hit(k) == /\ arg.h1[k].ts > st.bos.ts
                      /\ \/ Holds(arg.h1[k], st.p2.price)
                         \/ st.p3 # None /\ Holds(arg.h1[k], st.p3[1].price)
            C == {k \in 1..(Len(arg.h1) - 1) : Hit(k)}
        IN  IF C = {} THEN run.ret = None
            ELSE run.ret =
                    Some(IF Holds(arg.h1[Least(C)], st.p2.price)
                         THEN [ts |-> arg.h1[Least(C)].ts, price |-> st.p2.price,
                               which |-> "P2"]
                         ELSE [ts |-> arg.h1[Least(C)].ts, price |-> st.p3[1].price,
                               which |-> "P3"])

\* the first candle after the BOS that comes back holds the prices of p2
\* and of p3, and an earlier candle after the BOS held neither
C20_Witness ==
    /\ arg.op = "scan"
    /\ run.pc = "retested"
    /\ run.ret # None
    /\ run.ret[1].which = "P2"
    /\ run.out[1].p3 # None
    /\ \E k \in 1..(Len(arg.h1) - 1) :
          /\ arg.h1[k].ts = run.ret[1].ts
          /\ Holds(arg.h1[k], run.out[1].p3[1].price)
          /\ arg.h1[k - 1].ts > run.out[1].bos.ts

\* the index of the daily candle that opened at t
DayOf(t) == CHOOSE i \in 1..Len(run.d1) : run.d1[i].ts = t

\* the greatest member of a non-empty set of indices
Greatest(S) == CHOOSE x \in S : \A y \in S : y <= x

\* candle c runs against a breakout of direction dir: bearish (close below
\* open) for LONG, bullish for SHORT
Against(dir, c) == IF dir = "LONG" THEN c.close < c.open ELSE c.close > c.open

\* the daily pivots a breakout of direction dir goes through, before candle i
PivotsBefore(dir, i) ==
    {p \in 1..(i - 1) :
        IF dir = "LONG" THEN IsPivotHigh(run.d1, D1_PIVOT_LEFT, D1_PIVOT_RIGHT, p)
        ELSE IsPivotLow(run.d1, D1_PIVOT_LEFT, D1_PIVOT_RIGHT, p)}

\* the price of the last of them
LastPivot(dir, i) ==
    IF dir = "LONG" THEN run.d1[Greatest(PivotsBefore(dir, i))].high
    ELSE run.d1[Greatest(PivotsBefore(dir, i))].low

\* candle i goes strictly past the last pivot before it
IsBreakout(dir, i) ==
    /\ PivotsBefore(dir, i) # {}
    /\ IF dir = "LONG" THEN run.d1[i].high > LastPivot(dir, i)
       ELSE run.d1[i].low < LastPivot(dir, i)

\* the candles before i that run against the breakout
AgainstBefore(dir, i) == {j \in 1..(i - 1) : Against(dir, run.d1[j])}

\* the candidates find_d1_blocks appended, as a set of positions
Cands == 1..Len(run.cands)

\* C21: every MOVEMENT LONG candidate of find_d1_blocks comes from a breakout
\* candle i whose high strictly exceeds the last pivot high before i; its
\* body and wick ranges are those of the nearest candle before i with
\* close < open, its broken level is that pivot high; a breakout with no
\* bearish candle before it yields no MOVEMENT block (SHORT symmetric, with
\* pivot lows and bullish candles).  The blocks returned are candidates.
C21_MovementFromBreakout ==
    (run.op = "blocks" /\ run.pc = "found") =>
        /\ \A n \in Cands :
              run.cands[n].type = "MOVEMENT" =>
                 LET b == run.cands[n]
                     i == DayOf(b.break_ts)
                     J == AgainstBefore(b.dir, i)
                 IN  /\ \E t \in 1..Len(run.d1) : run.d1[t].ts = b.break_ts
                     /\ IsBreakout(b.dir, i)
                     /\ b.level = LastPivot(b.dir, i)
                     /\ J # {}
                     /\ b.ts = run.d1[Greatest(J)].ts
                     /\ b.body = <<Min2(run.d1[Greatest(J)].open, run.d1[Greatest(J)].close),
                                   Max2(run.d1[Greatest(J)].open, run.d1[Greatest(J)].close)>>
                     /\ b.wick = <<run.d1[Greatest(J)].low, run.d1[Greatest(J)].high>>
        /\ \A dir \in Directions, i \in 1..Len(run.d1) :
              (IsBreakout(dir, i) /\ AgainstBefore(dir, i) = {}) =>
                 \A n \in Cands :
                    ~(/\ run.cands[n].type = "MOVEMENT"
                      /\ run.cands[n].dir = dir
                      /\ run.cands[n].break_ts = run.d1[i].ts)
        /\ \A n \in 1..Len(run.blocks) : \E m \in Cands : run.blocks[n] = run.cands[m]

\* a series with a MOVEMENT LONG candidate whose bearish candle is not the
\* candle next to the breakout, and with a breakout inside the scan that no
\* candle running against it precedes
C21_Witness ==
    /\ run.op = "blocks"
    /\ run.pc = "found"
    /\ \E n \in Cands :
          /\ run.cands[n].type = "MOVEMENT"
          /\ run.cands[n].dir = "LONG"
          /\ DayOf(run.cands[n].ts) < DayOf(run.cands[n].break_ts) - 1
    /\ \E dir \in Directions, i \in (D1ScanStart + 1)..Len(run.d1) :
          /\ IsBreakout(dir, i)
          /\ AgainstBefore(dir, i) = {}

\* C22: a MITIGATION candidate is emitted only for a breakout for which a
\* MOVEMENT candidate was emitted, and it is the first candle after the
\* breakout candle (index strictly greater than the breakout index) whose
\* [low, high] contains the broken level, with the same direction.
C22_MitigationAfterMovement ==
    (run.op = "blocks" /\ run.pc = "found") =>
        \A n \in Cands :
           run.cands[n].type = "MITIGATION" =>
              LET b == run.cands[n]
                  i == DayOf(b.break_ts)
                  K == {k \in (i + 1)..Len(run.d1) :
                           run.d1[k].low <= b.level /\ b.level <= run.d1[k].high}
              IN  /\ \E m \in Cands :
                        /\ run.cands[m].type = "MOVEMENT"
                        /\ run.cands[m].dir = b.dir
                        /\ run.cands[m].break_ts = b.break_ts
                        /\ run.cands[m].level = b.level
                  /\ K # {}
                  /\ b.ts = run.d1[Least(K)].ts

\* the tolerance of the block of the call, in units of 1/20000: the midpoint
\* of its wick range times D1_BLOCK_TOL_PCT
BlockTol == Abs(arg.d1_block.wick[1] + arg.d1_block.wick[2]) * D1_BLOCK_TOL_PCT

\* [low, high] of candle c intersects range r widened by the tolerance
Meets(c, r) ==
    ~(U2(c.high) < U2(r[1]) - BlockTol \/ U2(r[2]) + BlockTol < U2(c.low))

\* the classification of a candle against the block of the call
TouchClass(c) ==
    IF ~Meets(c, arg.d1_block.wick) THEN "NONE"
    ELSE IF Meets(c, arg.d1_block.body) THEN "BODY"
    ELSE "WICK"

\* the closed candles of the window that touch the block
Touching == {i \in 1..(Len(arg.h1) - 1) : TouchClass(arg.h1[i]) # "NONE"}

\* C23: for an order block and a lower-timeframe candle the classification
\* is: no touch when the candle's [low, high] does not intersect the wick
\* range widened by midpoint * tolerance; BODY when it intersects the body
\* range widened by the same amount; WICK otherwise; BODY wins when both
\* ranges are intersected.  find_touch returns the most recent closed candle
\* of the window that touches, with that classification, and nothing when
\* none does or the window has fewer than MinTouchBars candles.
C23_TouchClassification ==
    (run.op = "touch" /\ run.pc = "touched") =>
        IF Len(arg.h1) < MinTouchBars \/ Touching = {}
        THEN run.p1 = None
        ELSE /\ run.p1 # None
             /\ run.p1[1].ts = arg.h1[Greatest(Touching)].ts
             /\ run.p1[1].touch_part = TouchClass(arg.h1[Greatest(Touching)])
             /\ run.p1[1].touch_part = "BODY" <=>
                   Meets(arg.h1[Greatest(Touching)], arg.d1_block.body)

\* the touch is a BODY touch of a candle that lies wholly below the body
\* and reaches it only through the tolerance, while an earlier closed candle
\* touches the wick only and the bar in progress lies across the block
C23_Witness ==
    /\ run.op = "touch"
    /\ run.pc = "touched"
    /\ run.p1 # None
    /\ run.p1[1].touch_part = "BODY"
    /\ run.p1[1].h1_high < arg.d1_block.body[1]
    /\ arg.d1_block.wick[1] < arg.d1_block.body[1]
    /\ \E i \in Touching : TouchClass(arg.h1[i]) = "WICK"
    /\ TouchClass(arg.h1[Len(arg.h1)]) = "BODY"

\* the number of consecutive ticks a rotation over n instruments in
\* batches of k takes: ceil(n / k)
RoundLen ==
    LET n == Len(arg.symbols)
        k == Max2(1, Min2(SYMBOLS_PER_TICK, n))
    IN  (n + k - 1) \div k

\* the ticks whose batch the for loop has gone through
TurnsDone ==
    IF pc = "batch" /\ pos <= Len(batch) THEN Len(run.turns) - 1 ELSE Len(run.turns)

\* C24: with a fixed universe of n instruments and batch size k, every
\* instrument is processed at least once in any ceil(n / k) consecutive
\* ticks, no instrument appears twice in the batch of one tick, and the
\* instruments are processed one after another, never two at a time.
C24_EveryTurn ==
    run.op = "robin" =>
        /\ \A a \in 1..(TurnsDone - RoundLen + 1) :
              \A i \in 1..Len(arg.symbols) :
                 \E t \in a..(a + RoundLen - 1) : arg.symbols[i] \in Range(run.turns[t])
        /\ \A t \in 1..Len(run.turns) :
              \A i, j \in 1..Len(run.turns[t]) :
                 i # j => run.turns[t][i] # run.turns[t][j]
        /\ pc = "batch" => Len(run.turns[Len(run.turns)]) = pos - 1

\* the shapes the bar in progress of an instrument is given in turn: the
\* shapes of a new candle, and one that spans every price of the series
OpenShapes(symbol) ==
    {IF symbol = "A" THEN r ELSE Mirror(r) :
        r \in {MenuRaw(m) : m \in Menu} \cup {<<930, 1100, 800, 930>>}}

\* what the detectors of a pass return for an instrument
Observed(symbol) == Observe(D1Series[symbol], H1Series(symbol, appended[symbol]))

\* the same, were the bar in progress of its H1 window to read r
ObservedWith(symbol, r) ==
    LET h1 == H1Series(symbol, appended[symbol])
    IN  Observe(D1Series[symbol], [h1 EXCEPT ![Len(h1)] = Candle(h1[Len(h1)].ts, r)])

\* C25: the last candle of the fetched H1 window, the bar that may still be
\* open, is never the touch candle, a pivot, the BOS candle or the retest
\* candle: what the pass about to run detects, and so what it sends, is the
\* same whatever the values of that candle.
C25_OpenBarUnused ==
    (pc = "batch" /\ pos <= Len(batch)) =>
        \A r \in OpenShapes(batch[pos]) :
           ObservedWith(batch[pos], r) = Observed(batch[pos])

\* a pass is about to run that finds touch, structure and retest, while the
\* bar in progress is one that gaps into the D1 block
C25_Witness ==
    /\ pc = "batch"
    /\ pos <= Len(batch)
    /\ appended[batch[pos]] # <<>>
    /\ Last(appended[batch[pos]]) = "T"
    /\ Observed(batch[pos]).ret # None
    /\ Observed(batch[pos]).p1[1].ts < Now

\* C26: in every signal that is sent the points are in time order: the
\* touch is not later than p2, p2 is strictly earlier than p3 when there is
\* a p3, the BOS is strictly later than p2 and than p3, and the retest, when
\* there is one, is strictly later than the BOS.
C26_PointsInOrder ==
    \A n \in 1..Len(outbox) :
       LET m == outbox[n]
       IN  /\ m.p1.ts <= m.p2.ts
           /\ m.p3 # None => m.p2.ts < m.p3[1].ts
           /\ m.p2.ts < m.bos.ts
           /\ m.p3 # None => m.p3[1].ts < m.bos.ts
           /\ m.retest # None => m.bos.ts < m.retest[1].ts

\* a signal was sent that carries a p3 and a retest
C26_Witness ==
    \E n \in 1..Len(outbox) :
       /\ outbox[n].p3 # None
       /\ outbox[n].retest # None

====
